---- MODULE Spec2Model ----
(***************************************************************************)
(* A model of src/main.py (CursorAccountManager): the key-value store      *)
(* transactions behind restore / manual input / logout, the token locator  *)
(* the bulk refresh of the saved account records, the record directory,   *)
(* the refresh of the current account and the controls.                    *)
(***************************************************************************)
EXTENDS Integers, Sequences, FiniteSets, TLC

VARIABLES
    \* the key-value store and the handler of the interactive thread
    dbExists,   \* os.path.exists(self.db_path)
    store,      \* committed rows of ItemTable: a set of <<key, value>>
    conn,       \* the handler's sqlite3 connection: [open, txn, work]
    pc,         \* position of the interactive thread's handler
    op,         \* the handler that ran last ("none" before the first)
    items,      \* the (key, value) pairs the running handler iterates over
    idx,        \* index of the next pair / key of the loop
    pre,        \* history: the committed rows when the handler started
    outcome,    \* the message box the handler showed last
    \* the token locator
    cfg,        \* storage.json
    logs,       \* the Session Storage directory
    lpc,        \* position in get_token_from_cursor_config
    token,      \* the value get_token_from_cursor_config returns
    cands,      \* history: what each strategy returned, or NotTried
    \* the saved account records and _refresh_saved_accounts_worker
    files,              \* the .json files of account_data_dir, in listing order
    rpc,                \* position of the worker
    ri,                 \* index of the file the loop is at
    account_data,       \* the worker's local account_data
    refreshed_accounts,
    updated_tree_data,
    failed_accounts,
    processed,
    total,              \* total_accounts
    result,             \* what the worker returned: "report" or "error"
    files0,             \* history: the files when the worker started
    hist,               \* history: per file, the token presented and the response
    rowFile,            \* history: per row of updated_tree_data, the file at hand
    json_files,         \* the worker's local json_files: the names it listed
    \* the record directory as the interactive thread uses it
    names,              \* the name of each file of files
    saved_accounts,     \* self.saved_accounts
    accounts_tree,      \* the rows of self.accounts_tree
    clock,              \* datetime.now(), in ticks
    msg,                \* the message box a record handler showed last
    save_job,           \* the future of _save_account_worker
    \* the current account, as read and shown by refresh_account_info
    view,               \* the StringVars of the account information frame
    current_account_data,
    cur,                \* the future of _refresh_account_info_worker
    \* interpreting one response
    subscription_data,  \* the decoded body given to the interpreting functions
    shown,              \* what each of them made of it
    \* the controls and the worker pool
    buttons,            \* state of every ttk.Button: TRUE when "normal"
    jobs,               \* the futures submitted and not yet collected
    startup             \* the deferred first refresh is still to run

storeVars == <<dbExists, store, conn, pc, op, items, idx, pre, outcome>>
locVars == <<cfg, logs, lpc, token, cands>>
refVars == <<files, rpc, ri, account_data, refreshed_accounts, updated_tree_data,
             failed_accounts, processed, total, result, files0, hist, rowFile,
             json_files>>
recVars == <<names, saved_accounts, accounts_tree, clock, msg, save_job>>
curVars == <<view, current_account_data, cur>>
fmtVars == <<subscription_data, shown>>
uiVars == <<buttons, jobs, startup>>
appVars == <<recVars, curVars, fmtVars, uiVars>>
vars == <<storeVars, locVars, refVars, appVars>>

----------------------------------------------------------------------------
(* Values.  A Python value is a record: a str with its characters, None,  *)
(* or a JSON list / object held where a string is expected.                *)

Str(s) == [t |-> "str", s |-> s]

None == [t |-> "none", s |-> ""]

JsonObj == [t |-> "obj", s |-> "[0]"]

EmptyStr == Str("")
VA == Str("AAAAAAAAAAAAAAAAAAAAA")
VB == Str("BBBBBBBBBBBBBBBBBBBBB")

IsStr(v) == v.t = "str"

\* Python truthiness: "" and None are false, a non-empty str or list is true
Truthy(v) == IF v.t = "str" THEN Len(v.s) > 0 ELSE v.t = "obj"

\* sqlite3 binds a str parameter; a list or dict parameter raises
Bindable(v) == v.t = "str"

----------------------------------------------------------------------------
(* Strings.                                                                *)

CharAt(s, i) == SubSeq(s, i, i)

LowerChar(c) ==
    CASE c = "A" -> "a" [] c = "B" -> "b" [] c = "C" -> "c" [] c = "D" -> "d"
      [] c = "E" -> "e" [] c = "F" -> "f" [] c = "G" -> "g" [] c = "H" -> "h"
      [] c = "I" -> "i" [] c = "J" -> "j" [] c = "K" -> "k" [] c = "L" -> "l"
      [] c = "M" -> "m" [] c = "N" -> "n" [] c = "O" -> "o" [] c = "P" -> "p"
      [] c = "Q" -> "q" [] c = "R" -> "r" [] c = "S" -> "s" [] c = "T" -> "t"
      [] c = "U" -> "u" [] c = "V" -> "v" [] c = "W" -> "w" [] c = "X" -> "x"
      [] c = "Y" -> "y" [] c = "Z" -> "z" [] OTHER -> c

UpperChar(c) ==
    CASE c = "a" -> "A" [] c = "b" -> "B" [] c = "c" -> "C" [] c = "d" -> "D"
      [] c = "e" -> "E" [] c = "f" -> "F" [] c = "g" -> "G" [] c = "h" -> "H"
      [] c = "i" -> "I" [] c = "j" -> "J" [] c = "k" -> "K" [] c = "l" -> "L"
      [] c = "m" -> "M" [] c = "n" -> "N" [] c = "o" -> "O" [] c = "p" -> "P"
      [] c = "q" -> "Q" [] c = "r" -> "R" [] c = "s" -> "S" [] c = "t" -> "T"
      [] c = "u" -> "U" [] c = "v" -> "V" [] c = "w" -> "W" [] c = "x" -> "X"
      [] c = "y" -> "Y" [] c = "z" -> "Z" [] OTHER -> c

RECURSIVE Lower(_)
\* str.lower()
Lower(s) == IF s = "" THEN "" ELSE LowerChar(CharAt(s, 1)) \o Lower(SubSeq(s, 2, Len(s)))

\* str.capitalize(): the first character upper-cased, the rest lower-cased
Capitalize(s) ==
    IF s = "" THEN "" ELSE UpperChar(CharAt(s, 1)) \o Lower(SubSeq(s, 2, Len(s)))

\* sub in s
Contains(s, sub) ==
    \E i \in 1..(Len(s) - Len(sub) + 1) : SubSeq(s, i, i + Len(sub) - 1) = sub

IsSpace(c) == c \in {" ", "\n", "\t"}

RECURSIVE LStrip(_)
LStrip(s) ==
    IF s = "" THEN ""
    ELSE IF IsSpace(CharAt(s, 1)) THEN LStrip(SubSeq(s, 2, Len(s))) ELSE s

RECURSIVE RStrip(_)
RStrip(s) ==
    IF s = "" THEN ""
    ELSE IF IsSpace(CharAt(s, Len(s))) THEN RStrip(SubSeq(s, 1, Len(s) - 1)) ELSE s

\* str.strip()
Strip(s) == RStrip(LStrip(s))

----------------------------------------------------------------------------
(* Keys of ItemTable.                                                      *)

K_Email == "cursorAuth/cachedEmail"
K_Refresh == "cursorAuth/refreshToken"
K_Access == "cursorAuth/accessToken"
K_SignUp == "cursorAuth/cachedSignUpType"
K_Member == "cursorAuth/stripeMembershipType"
K_Other == "telemetry.machineId"

Keys == {K_Email, K_Refresh, K_Access, K_SignUp, K_Member, K_Other}

\* a key list that forgets the membership key
auth_keys_short == <<K_Email, K_Refresh, K_Access, K_SignUp>>

\* logout_current_account: auth_keys
auth_keys == <<K_Email, K_Refresh, K_Access, K_SignUp, K_Member>>

----------------------------------------------------------------------------
(* Bounds of the model.                                                    *)

MaxEntries == 2

EntryVals == {VA, VB, JsonObj}

UniqueKeys(rows) == \A r1, r2 \in rows : r1[1] = r2[1] => r1 = r2

\* the tables the program may find at startup: no row, only a foreign row, a
\* logged-in account, and a logged-in account with a foreign row
LoggedIn(v) == {<<K_Email, v>>, <<K_Refresh, v>>, <<K_Access, v>>,
                <<K_SignUp, v>>, <<K_Member, v>>}

InitStores == {{}, {<<K_Other, VA>>}, LoggedIn(VA), LoggedIn(VA) \cup {<<K_Other, VA>>},
               {<<K_Email, VB>>, <<K_Access, VB>>, <<K_Other, VB>>}}

\* the keys a saved record's raw_data may name
EntryKeys == {K_Email, K_Member, K_Other}

\* the raw_data mappings of a saved record, as item lists in document order
EntryLists ==
    UNION {{s \in [1..n -> EntryKeys \X EntryVals] :
                \A i, j \in 1..n : i # j => s[i][1] # s[j][1]} : n \in 0..MaxEntries}

\* account_data.get("raw_data", {}): a mapping, or a value without .items()
RawDatas == [mapping : {TRUE}, items : EntryLists]
                \cup {[mapping |-> FALSE, items |-> <<>>]}

----------------------------------------------------------------------------
(* The frame of the current account and the job that refreshes it.         *)

\* the five variables of the frame, as logout_current_account clears them
BlankView ==
    [email_var |-> "", account_type_var |-> "", membership_var |-> "",
     trial_status_var |-> "", pro_trial_var |-> ""]

\* the job submitted last by refresh_account_info: where its worker is, what
\* it read and returned, whether it called the remote endpoint, and what
\* _check_refresh_future made of the result
NoRefresh ==
    [state |-> "idle", read |-> FALSE, data |-> <<>>, called |-> FALSE,
     kind |-> "none", error |-> "", subscription_info |-> <<>>, shown |-> "none"]

\* future = self.executor.submit(self._refresh_account_info_worker)
Submitted == [NoRefresh EXCEPT !.state = "submitted"]

----------------------------------------------------------------------------
(* sqlite3 statements on a set of rows.                                    *)

CountKey(rows, k) == Cardinality({r \in rows : r[1] = k})

SqlInsert(rows, k, v) == rows \cup {<<k, v>>}

SqlUpdate(rows, k, v) == {IF r[1] = k THEN <<k, v>> ELSE r : r \in rows}

SqlDelete(rows, k) == {r \in rows : r[1] # k}

NoConn == [open |-> FALSE, txn |-> FALSE, work |-> {}]

\* sqlite3.connect + "BEGIN TRANSACTION": the transaction sees the committed rows
Begin(rows) == [open |-> TRUE, txn |-> TRUE, work |-> rows]

\* the connection once its transaction has ended (COMMIT or ROLLBACK)
Ended(c) == [c EXCEPT !.txn = FALSE, !.work = {}]

\* a connect that goes ahead without the file (sqlite3.connect creates it)
ConnectResultsAnyway == BOOLEAN
\* connect_to_database: None when the file is missing or connect raises
ConnectResults == IF dbExists THEN BOOLEAN ELSE {FALSE}

\* what a statement of the loop may do: run, or raise in the SELECT or in the
\* INSERT / UPDATE
StepFaults == {"none", "select", "write"}

\* "COMMIT": the rows of the transaction become the committed rows
Commit(rows, c) == c.work

----------------------------------------------------------------------------
(* restore_selected_account                                                *)

\* a loop that inserts the missing keys and leaves the present ones alone
RestoreInsertOnly(rows, k, v) ==
    IF CountKey(rows, k) = 0 THEN SqlInsert(rows, k, v) ELSE rows
\* the SELECT COUNT(*) / INSERT / UPDATE of one pair
RestoreUpsert(rows, k, v) ==
    IF CountKey(rows, k) = 0 THEN SqlInsert(rows, k, v) ELSE SqlUpdate(rows, k, v)

\* a handler that commits what the transaction wrote before the failure
RestoreFailedCommits(rows, c) == c.work

\* except: cursor.execute("ROLLBACK"); raise e -- the committed rows stay
RestoreFailed(rows, c) == rows

RestoreBegin(raw) ==
    /\ pc = "idle"
    /\ op' = "restore"
    /\ pre' = store
    /\ idx' = 1
    /\ \E got \in ConnectResults :
         IF ~got
           THEN /\ conn' = NoConn
                /\ items' = <<>>
                /\ outcome' = "notconnected"
                /\ pc' = "idle"
                /\ store' = store
           ELSE IF ~raw.mapping
             THEN \* raw_data.items() raises inside the inner try
                  /\ store' = RestoreFailed(store, Begin(store))
                  /\ conn' = Ended(Begin(store))
                  /\ items' = <<>>
                  /\ outcome' = "error"
                  /\ pc' = "restore_msg"
             ELSE /\ conn' = Begin(store)
                  /\ items' = raw.items
                  /\ outcome' = "none"
                  /\ pc' = "restore"
                  /\ store' = store
    /\ UNCHANGED dbExists
    /\ UNCHANGED <<locVars, refVars, appVars>>

RestoreWrite ==
    /\ pc = "restore"
    /\ idx <= Len(items)
    /\ LET k == items[idx][1]
           v == items[idx][2]
       IN \E fault \in StepFaults :
            IF fault = "none" /\ Bindable(v)
              THEN /\ conn' = [conn EXCEPT !.work = RestoreUpsert(@, k, v)]
                   /\ idx' = idx + 1
                   /\ UNCHANGED <<store, pc, outcome>>
              ELSE /\ store' = RestoreFailed(store, conn)
                   /\ conn' = Ended(conn)
                   /\ outcome' = "error"
                   /\ pc' = "restore_msg"
                   /\ idx' = idx
    /\ UNCHANGED <<dbExists, op, items, pre>>
    /\ UNCHANGED <<locVars, refVars, appVars>>

RestoreCommit ==
    /\ pc = "restore"
    /\ idx > Len(items)
    /\ \E ok \in BOOLEAN :
         IF ok
           THEN /\ store' = Commit(store, conn)
                /\ outcome' = "success"
                /\ cur' = Submitted        \* self.refresh_account_info()
           ELSE /\ store' = RestoreFailed(store, conn)
                /\ outcome' = "error"
                /\ cur' = cur
    /\ conn' = Ended(conn)
    /\ pc' = "restore_msg"
    /\ UNCHANGED <<dbExists, op, items, idx, pre>>
    /\ UNCHANGED <<locVars, refVars, recVars, fmtVars, uiVars, view, current_account_data>>

\* finally: if conn: conn.close()
RestoreFinally ==
    /\ pc = "restore_msg"
    /\ conn' = NoConn
    /\ pc' = "idle"
    /\ items' = <<>>
    /\ idx' = 1
    /\ UNCHANGED <<dbExists, store, op, pre, outcome>>
    /\ UNCHANGED <<locVars, refVars, appVars>>

----------------------------------------------------------------------------
(* manual_input_dialog.apply_manual_input                                  *)

\* email_entry.get()
EmailTexts == {"a@x.io", " b@x.io ", "", "  "}
\* Text.get("1.0", tk.END) ends with the widget's newline
AccessTexts == {"AAAAAAAAAAAAAAAAAAAAA\n", "\n"}
RefreshTexts == {"BBBBBBBBBBBBBBBBBBBBB\n", " \n"}
\* the read-only combobox
AccountTypes == {"Auth_0", "Google"}

\* a loop that inserts without the SELECT COUNT(*)
ManualInsertAlways(rows, k, v) == SqlInsert(rows, k, v)
\* lines 1101-1112: the SELECT COUNT(*) / UPDATE / INSERT of one pair
ManualUpsert(rows, k, v) ==
    IF CountKey(rows, k) = 0 THEN SqlInsert(rows, k, v) ELSE SqlUpdate(rows, k, v)

ManualUpdates(email, access_token, refresh_token, account_type) ==
    << <<K_Email, email>>, <<K_Access, access_token>>,
       <<K_Refresh, refresh_token>>, <<K_SignUp, account_type>> >>

ManualApply(emailText, accessText, refreshText, account_type) ==
    LET email == Str(Strip(emailText))
        access_token == Str(Strip(accessText))
        refresh_token == Str(Strip(refreshText))
    IN
    /\ pc = "idle"
    /\ op' = "manual"
    /\ pre' = store
    /\ idx' = 1
    /\ IF ~Truthy(email) \/ ~Truthy(access_token) \/ ~Truthy(refresh_token)
         THEN /\ conn' = NoConn
              /\ items' = <<>>
              /\ outcome' = "invalid"
              /\ pc' = "idle"
         ELSE \E got \in ConnectResults :
                IF ~got
                  THEN /\ conn' = NoConn
                       /\ items' = <<>>
                       /\ outcome' = "notconnected"
                       /\ pc' = "idle"
                  ELSE /\ conn' = Begin(store)
                       /\ items' = ManualUpdates(email, access_token,
                                                 refresh_token, Str(account_type))
                       /\ outcome' = "none"
                       /\ pc' = "manual"
    /\ UNCHANGED <<dbExists, store>>
    /\ UNCHANGED <<locVars, refVars, appVars>>

\* except Exception: messagebox.showerror(...) -- no ROLLBACK, no close
ManualWrite ==
    /\ pc = "manual"
    /\ idx <= Len(items)
    /\ LET k == items[idx][1]
           v == items[idx][2]
       IN \E fault \in StepFaults :
            IF fault = "none" /\ Bindable(v)
              THEN /\ conn' = [conn EXCEPT !.work = ManualUpsert(@, k, v)]
                   /\ idx' = idx + 1
                   /\ UNCHANGED <<pc, outcome>>
              ELSE /\ conn' = conn
                   /\ outcome' = "error"
                   /\ pc' = "manual_msg"
                   /\ idx' = idx
    /\ UNCHANGED <<dbExists, store, op, items, pre>>
    /\ UNCHANGED <<locVars, refVars, appVars>>

ManualCommit ==
    /\ pc = "manual"
    /\ idx > Len(items)
    /\ \E ok \in BOOLEAN :
         IF ok
           THEN /\ store' = Commit(store, conn)
                /\ conn' = NoConn           \* conn.close()
                /\ outcome' = "success"
                /\ cur' = Submitted        \* self.refresh_account_info()
           ELSE /\ store' = store
                /\ conn' = conn
                /\ outcome' = "error"
                /\ cur' = cur
    /\ pc' = "manual_msg"
    /\ UNCHANGED <<dbExists, op, items, idx, pre>>
    /\ UNCHANGED <<locVars, refVars, recVars, fmtVars, uiVars, view, current_account_data>>

\* the handler returns: its locals conn and cursor are released, and the
\* interpreter finalizes a connection left open, which ends its transaction
\* without committing it
ManualReturn ==
    /\ pc = "manual_msg"
    /\ conn' = NoConn
    /\ pc' = "idle"
    /\ items' = <<>>
    /\ idx' = 1
    /\ UNCHANGED <<dbExists, store, op, pre, outcome>>
    /\ UNCHANGED <<locVars, refVars, appVars>>

----------------------------------------------------------------------------
(* logout_current_account                                                  *)

\* a handler that keeps the deletes made before the failure
LogoutFailedCommits(rows, c) == c.work
\* except: cursor.execute("ROLLBACK"); raise e -- the committed rows stay
LogoutFailed(rows, c) == rows

LogoutBegin ==
    /\ pc = "idle"
    /\ op' = "logout"
    /\ pre' = store
    /\ idx' = 1
    /\ items' = <<>>
    /\ \E got \in ConnectResults :
         IF ~got
           THEN /\ conn' = NoConn
                /\ outcome' = "notconnected"
                /\ pc' = "idle"
           ELSE /\ conn' = Begin(store)
                /\ outcome' = "none"
                /\ pc' = "logout"
    /\ UNCHANGED <<dbExists, store>>
    /\ UNCHANGED <<locVars, refVars, appVars>>

LogoutDelete ==
    /\ pc = "logout"
    /\ idx <= Len(auth_keys)
    /\ \E ok \in BOOLEAN :
         IF ok
           THEN /\ conn' = [conn EXCEPT !.work = SqlDelete(@, auth_keys[idx])]
                /\ idx' = idx + 1
                /\ UNCHANGED <<store, pc, outcome>>
           ELSE /\ store' = LogoutFailed(store, conn)
                /\ conn' = Ended(conn)
                /\ outcome' = "error"
                /\ pc' = "logout_msg"
                /\ idx' = idx
    /\ UNCHANGED <<dbExists, op, items, pre>>
    /\ UNCHANGED <<locVars, refVars, appVars>>

LogoutCommit ==
    /\ pc = "logout"
    /\ idx > Len(auth_keys)
    /\ \E ok \in BOOLEAN :
         IF ok
           THEN /\ store' = Commit(store, conn)
                /\ conn' = NoConn           \* conn.close()
                /\ outcome' = "success"
                /\ view' = BlankView        \* lines 1193-1198
                /\ current_account_data' = <<>>
           ELSE /\ store' = LogoutFailed(store, conn)
                /\ conn' = Ended(conn)
                /\ outcome' = "error"
                /\ UNCHANGED <<view, current_account_data>>
    /\ pc' = "logout_msg"
    /\ UNCHANGED <<dbExists, op, items, idx, pre>>
    /\ UNCHANGED <<locVars, refVars, recVars, fmtVars, uiVars, cur>>

\* finally: if 'conn' in locals() and conn: conn.close()
LogoutFinally ==
    /\ pc = "logout_msg"
    /\ conn' = NoConn
    /\ pc' = "idle"
    /\ items' = <<>>
    /\ idx' = 1
    /\ UNCHANGED <<dbExists, store, op, pre, outcome>>
    /\ UNCHANGED <<locVars, refVars, appVars>>

----------------------------------------------------------------------------
(* The token locator: get_token_from_cursor_config and its three sources.  *)

MinTokenLen == 20

MaxCfgKeys == 2
MaxLogs == 2

NotTried == [t |-> "nottried", s |-> ""]

\* what a strategy hands to its caller: a value, or an exception
Returned(v) == [raised |-> FALSE, val |-> v]
Raised == [raised |-> TRUE, val |-> None]

\* the results of the three strategies before any has run
NoCands == [storage |-> Returned(NotTried), sqlite |-> Returned(NotTried),
            session |-> Returned(NotTried)]

\* the smallest index of 1..n in the set hits, 0 when hits is empty
FirstOf(hits) == IF hits = {} THEN 0 ELSE CHOOSE i \in hits : \A j \in hits : i <= j

\* -- storage.json ---------------------------------------------------------
\* the file: missing, unreadable (open or json.load raises), a JSON document
\* that is no object, or an object with its members in document order
CfgKeys == {K_Access, "workos.sessionTOKEN", K_Email}
CfgVals == {Str("CCCCCCCCCCCCCCCCCCCCC"), Str("cccccccccccccccccccc"), EmptyStr, JsonObj}

CfgDocs ==
    UNION {{d \in [1..n -> CfgKeys \X CfgVals] :
                \A i, j \in 1..n : i # j => d[i][1] # d[j][1]} : n \in 0..MaxCfgKeys}

Cfgs == [state : {"ok"}, doc : CfgDocs]
            \cup [state : {"missing", "unreadable", "notdict"}, doc : {<<>>}]

\* a strategy whose failure reaches its caller
StorageExceptPropagates == Raised

\* except Exception as e: logging.error(...); return None
StorageExcept == Returned(None)

\* a scan that compares the name as it is written
TokenLikeMemberCaseSensitive(m) ==
    Contains(m[1], "token") /\ IsStr(m[2]) /\ Len(m[2].s) > MinTokenLen
\* for key in data: 'token' in key.lower() and isinstance(data[key], str)
\*                  and len(data[key]) > 20
TokenLikeMember(m) ==
    Contains(Lower(m[1]), "token") /\ IsStr(m[2]) /\ Len(m[2].s) > MinTokenLen

GetTokenFromStorage(c) ==
    IF c.state = "missing" THEN Returned(None)
    ELSE IF c.state \in {"unreadable", "notdict"} THEN StorageExcept
    ELSE LET named == FirstOf({i \in 1..Len(c.doc) : c.doc[i][1] = "cursorAuth/accessToken"})
             other == FirstOf({i \in 1..Len(c.doc) : TokenLikeMember(c.doc[i])})
         IN IF named # 0 THEN Returned(c.doc[named][2])
            ELSE IF other # 0 THEN Returned(c.doc[other][2])
            ELSE Returned(None)

\* -- ItemTable ------------------------------------------------------------
JsonTokenHead == "{\"token\":\""
JsonTokenTail == "\"}"

\* json.loads on the texts a row may hold: an object whose only member is
\* "token", the empty object, the empty list; any other text is not JSON
JsonLoads(s) ==
    IF s = "{}" THEN [ok |-> TRUE, dict |-> TRUE, hasToken |-> FALSE, token |-> None]
    ELSE IF s = "[]" THEN [ok |-> TRUE, dict |-> FALSE, hasToken |-> FALSE, token |-> None]
    ELSE IF /\ Len(s) >= Len(JsonTokenHead) + Len(JsonTokenTail)
            /\ SubSeq(s, 1, Len(JsonTokenHead)) = JsonTokenHead
            /\ SubSeq(s, Len(s) - 1, Len(s)) = JsonTokenTail
            /\ ~Contains(SubSeq(s, Len(JsonTokenHead) + 1, Len(s) - 2), "\"")
      THEN [ok |-> TRUE, dict |-> TRUE, hasToken |-> TRUE,
            token |-> Str(SubSeq(s, Len(JsonTokenHead) + 1, Len(s) - 2))]
    ELSE [ok |-> FALSE, dict |-> FALSE, hasToken |-> FALSE, token |-> None]

\* a scan that takes long strings only
RowPassesLongOnly(v) == IsStr(v) /\ Len(v.s) > MinTokenLen
\* whether a row ends the scan: a long string, or a JSON object with "token"
RowPasses(v) ==
    \/ IsStr(v) /\ Len(v.s) > MinTokenLen
    \/ IsStr(v) /\ JsonLoads(v.s).ok /\ JsonLoads(v.s).dict /\ JsonLoads(v.s).hasToken

RowValue(v) ==
    IF IsStr(v) /\ Len(v.s) > MinTokenLen THEN v ELSE JsonLoads(v.s).token

\* SELECT value FROM ItemTable WHERE key LIKE '%token%' (LIKE ignores case)
TokenLikeRows(rows) == {r \in rows : Contains(Lower(r[1]), "token")}

\* the orders in which the query may return the rows
RowOrders(rows) ==
    {q \in [1..Cardinality(rows) -> rows] : \A i, j \in DOMAIN q : i # j => q[i] # q[j]}

\* except Exception as e: logging.error(...); return None
SqliteExcept == Returned(None)

\* connected: connect_to_database() gave a connection; queried: the SELECT ran;
\* q: the rows in the order fetched
GetTokenFromSqlite(connected, queried, q) ==
    IF ~connected THEN Returned(None)
    ELSE IF ~queried THEN SqliteExcept
    ELSE LET hit == FirstOf({i \in 1..Len(q) : RowPasses(q[i][2])})
         IN IF hit # 0 THEN Returned(RowValue(q[hit][2])) ELSE Returned(None)

\* -- Session Storage ------------------------------------------------------
TokenPattern == "\"token\":\""

\* re.search(r'"token":"([^"]+)"', content) matches at i
MatchesAt(s, i) ==
    /\ i + Len(TokenPattern) <= Len(s)
    /\ SubSeq(s, i, i + Len(TokenPattern) - 1) = TokenPattern
    /\ CharAt(s, i + Len(TokenPattern)) # "\""
    /\ \E j \in (i + Len(TokenPattern) + 1)..Len(s) : CharAt(s, j) = "\""

\* token_match.group(1) of the leftmost match, None without a match
ReSearchToken(s) ==
    IF \E i \in 1..Len(s) : MatchesAt(s, i)
      THEN LET i == CHOOSE i \in 1..Len(s) :
                        MatchesAt(s, i) /\ \A h \in 1..(i - 1) : ~MatchesAt(s, h)
               b == i + Len(TokenPattern)
               e == CHOOSE j \in (b + 1)..Len(s) :
                        CharAt(s, j) = "\"" /\ \A h \in (b + 1)..(j - 1) : CharAt(s, h) # "\""
           IN Str(SubSeq(s, b, e - 1))
      ELSE None

\* in the content of a file, this character stands for a byte sequence that
\* is not valid UTF-8 (a lone 0xFF, say); every other character for itself
InvalidByte == "^"

\* f.read().decode('utf-8', errors='ignore'): invalid bytes are left out
RECURSIVE Decode(_)
Decode(bytes) ==
    IF bytes = "" THEN ""
    ELSE (IF CharAt(bytes, 1) = InvalidByte THEN "" ELSE CharAt(bytes, 1))
            \o Decode(SubSeq(bytes, 2, Len(bytes)))

\* file.endswith(suffix)
EndsWith(name, suffix) ==
    Len(name) >= Len(suffix) /\ SubSeq(name, Len(name) - Len(suffix) + 1, Len(name)) = suffix

\* a directory entry: its name, whether open/read succeeds, its content
LogFiles ==
    { [name |-> "000003.log", readable |-> TRUE,  text |-> "k\"token\":\"LLL\"z"],
      [name |-> "000004.log", readable |-> TRUE,  text |-> "\"token\":\"\" none"],
      [name |-> "000005.log", readable |-> FALSE, text |-> "\"token\":\"MMM\""],
      [name |-> "LOCK",       readable |-> TRUE,  text |-> "\"token\":\"NNN\""] }

LogDirs ==
    [state : {"ok"}, files : UNION {[1..n -> LogFiles] : n \in 0..MaxLogs}]
        \cup [state : {"missing", "unlistable"}, files : {<<>>}]

\* except Exception as e: logging.error(...); return None
SessionExcept == Returned(None)

\* whether a directory entry ends the scan
LogPasses(f) ==
    EndsWith(f.name, ".log") /\ f.readable /\ ReSearchToken(Decode(f.text)) # None

GetTokenFromSession(d) ==
    IF d.state = "missing" THEN Returned(None)
    ELSE IF d.state = "unlistable" THEN SessionExcept
    ELSE LET hit == FirstOf({i \in 1..Len(d.files) : LogPasses(d.files[i])})
         IN IF hit # 0 THEN Returned(ReSearchToken(Decode(d.files[hit].text)))
            ELSE Returned(None)

\* -- get_token_from_cursor_config ----------------------------------------
\* a locator that goes on to the database whatever the config gave
AfterStorageNoReturn(tok) == "sqlite"

\* if token: return token
AfterStorage(tok) == IF Truthy(tok) THEN "done" ELSE "sqlite"
AfterSqlite(tok) == IF Truthy(tok) THEN "done" ELSE "session"

\* one strategy has run with result r; next names the position that follows it
LocateStep(r, next) ==
    IF r.raised
      THEN \* except Exception as e: logging.error(...); return None
           /\ token' = None
           /\ lpc' = "done"
      ELSE /\ token' = IF Truthy(r.val) THEN r.val ELSE None
           /\ lpc' = next

LocateStorage ==
    /\ lpc = "storage"
    /\ LET r == GetTokenFromStorage(cfg)
       IN /\ LocateStep(r, AfterStorage(r.val))
          /\ cands' = [cands EXCEPT !.storage = r]
    /\ UNCHANGED <<storeVars, cfg, logs, refVars, appVars>>

LocateSqlite ==
    /\ lpc = "sqlite"
    /\ \E connected \in ConnectResults, queried \in BOOLEAN,
          q \in RowOrders(TokenLikeRows(store)) :
         LET r == GetTokenFromSqlite(connected, queried, q)
         IN /\ LocateStep(r, AfterSqlite(r.val))
            /\ cands' = [cands EXCEPT !.sqlite = r]
    /\ UNCHANGED <<storeVars, cfg, logs, refVars, appVars>>

LocateSession ==
    /\ lpc = "session"
    /\ LET r == GetTokenFromSession(logs)
       IN /\ LocateStep(r, "done")
          /\ cands' = [cands EXCEPT !.session = r]
    /\ UNCHANGED <<storeVars, cfg, logs, refVars, appVars>>

----------------------------------------------------------------------------
(* Saved account records and the remote subscription profile.              *)

\* a member a JSON object does not have
Absent == [t |-> "absent", s |-> ""]

\* dict.get(key, default)
Get(v, default) == IF v = Absent THEN default ELSE v

\* a or b
Or(a, b) == IF Truthy(a) THEN a ELSE b

\* raw_data.get(key): the value stored under key, None when there is none
RawGet(raw, k) ==
    LET hits == {i \in 1..Len(raw.items) : raw.items[i][1] = k}
    IN  IF hits = {} THEN None ELSE raw.items[FirstOf(hits)][2]

\* daysRemainingOnTrial: absent, null or a number
NoDays == [st |-> "absent", n |-> 0]
NullDays == [st |-> "null", n |-> 0]
Days(n) == [st |-> "num", n |-> n]

\* the legacy "subscription" member: absent, or an object with plan.nickname and status
NoSubscription == [present |-> FALSE, nickname |-> Absent, status |-> Absent]
Subscription(nickname, status) == [present |-> TRUE, nickname |-> nickname, status |-> status]

\* what get_stripe_profile returns: None, or the decoded body of a 2xx response
ProfileNone ==
    [kind |-> "none", membershipType |-> Absent, subscriptionStatus |-> Absent,
     daysRemainingOnTrial |-> NoDays, subscription |-> NoSubscription]
Profile(mt, st, days, sub) ==
    [kind |-> "dict", membershipType |-> mt, subscriptionStatus |-> st,
     daysRemainingOnTrial |-> days, subscription |-> sub]
ProfileEmpty == Profile(Absent, Absent, NoDays, NoSubscription)
\* a body that is a non-empty JSON list
ProfileList ==
    [kind |-> "list", membershipType |-> Absent, subscriptionStatus |-> Absent,
     daysRemainingOnTrial |-> NoDays, subscription |-> NoSubscription]

\* bool(subscription_info)
TruthyProfile(d) == (d.kind = "dict" /\ d # ProfileEmpty) \/ d.kind = "list"

\* a returned string, or an exception raised
Ret(s) == [raised |-> FALSE, val |-> s]
Raise == [raised |-> TRUE, val |-> ""]

\* str(v) as an f-string renders it
PyStr(v) == IF v.t = "none" THEN "None" ELSE v.s

\* format_subscription_type, legacy branch
FormatLegacy(d) ==
    IF d.subscription.present
    THEN LET plan == Get(d.subscription.nickname, Str("Unknown"))
             status == Get(d.subscription.status, Str("unknown"))
         IN  IF status = Str("active")
             THEN IF ~IsStr(plan) THEN Raise
                  ELSE IF Contains(Lower(plan.s), "pro") THEN Ret("Pro")
                  ELSE IF Contains(Lower(plan.s), "pro_trial") THEN Ret("Pro Trial")
                  ELSE IF Contains(Lower(plan.s), "free_trial") THEN Ret("Free Trial")
                  ELSE IF Contains(Lower(plan.s), "team") THEN Ret("Team")
                  ELSE IF Contains(Lower(plan.s), "enterprise") THEN Ret("Enterprise")
                  ELSE Ret(plan.s)
             ELSE Ret(PyStr(plan) \o " (" \o PyStr(status) \o ")")
    ELSE Ret("Free")

\* format_subscription_type
format_subscription_type(d) ==
    IF ~TruthyProfile(d) THEN Ret("Free")
    ELSE IF d.kind = "list" THEN Raise
    ELSE IF d.membershipType # Absent
    THEN LET st == Get(d.subscriptionStatus, EmptyStr)
         IN  IF ~IsStr(d.membershipType) \/ ~IsStr(st) THEN Raise
             ELSE LET membership_type == Lower(d.membershipType.s)
                      subscription_status == Lower(st.s)
                  IN  IF subscription_status = "active"
                      THEN IF membership_type = "pro" THEN Ret("Pro")
                           ELSE IF membership_type = "free_trial" THEN Ret("Free Trial")
                           ELSE IF membership_type = "pro_trial" THEN Ret("Pro Trial")
                           ELSE IF membership_type = "team" THEN Ret("Team")
                           ELSE IF membership_type = "enterprise" THEN Ret("Enterprise")
                           ELSE IF membership_type # ""
                                THEN Ret(Capitalize(membership_type))
                           ELSE Ret("Active Subscription")
                      ELSE IF subscription_status # ""
                      THEN Ret(Capitalize(membership_type) \o " (" \o subscription_status \o ")")
                      ELSE FormatLegacy(d)
    ELSE FormatLegacy(d)

\* the two trial fields the worker derives from a non-empty response
TrialFields(d) ==
    LET mt == Get(d.membershipType, EmptyStr)
    IN  IF d.kind = "list" \/ ~IsStr(mt)
        THEN [raised |-> TRUE, trial_status |-> "", pro_trial_remaining |-> ""]
        ELSE IF Contains(Lower(mt.s), "trial")
        THEN LET days_remaining == d.daysRemainingOnTrial
             IN  IF days_remaining.st = "num" /\ days_remaining.n > 0
                 THEN [raised |-> FALSE,
                       trial_status |-> "Active - " \o ToString(days_remaining.n)
                                            \o " days remaining",
                       pro_trial_remaining |-> ToString(days_remaining.n)
                                            \o " days remaining"]
                 ELSE [raised |-> FALSE, trial_status |-> "Trial expired",
                       pro_trial_remaining |-> "Expired"]
        ELSE [raised |-> FALSE, trial_status |-> "Not on trial",
              pro_trial_remaining |-> "Not applicable"]

----------------------------------------------------------------------------
(* _refresh_saved_accounts_worker                                          *)

MaxFiles == 2

M_ApiError == "API Error - Auth Failed"
M_NoToken == "No Token Found"

\* the decoded content of a record file
Account(membership, saved_date, raw) ==
    [email |-> Str("a@x.io"), account_type |-> Str("Auth_0"),
     membership |-> membership, trial_status |-> Str("Not on trial"),
     pro_trial_remaining |-> Str("Not applicable"),
     saved_date |-> saved_date, raw_data |-> raw]

NoData == [none |-> TRUE]
\* a file that cannot be opened or decoded, one holding a JSON list, one holding a record
CorruptFile == [kind |-> "corrupt", data |-> NoData]
ListFile == [kind |-> "list", data |-> NoData]
RecordFile(a) == [kind |-> "rec", data |-> a]
\* the worker's account_data before its first assignment
Unbound == [kind |-> "unbound", data |-> NoData]

Mapping(its) == [mapping |-> TRUE, items |-> its]
NotMapping == [mapping |-> FALSE, items |-> <<>>]

SavedRaws ==
    {Mapping(<<<<K_Email, Str("a@x.io")>>, <<K_Access, VA>>, <<K_Refresh, VB>>>>),
     Mapping(<<<<K_Email, Str("a@x.io")>>, <<K_Access, EmptyStr>>, <<K_Refresh, VB>>>>),
     Mapping(<<<<K_Email, Str("a@x.io")>>>>),
     Mapping(<<<<K_Access, EmptyStr>>, <<K_Refresh, EmptyStr>>>>),
     NotMapping}

SavedDates == {Str("2024-05-01T10:00:00.123456"), None}

SavedFiles ==
    {CorruptFile, ListFile}
      \cup {RecordFile(Account(Str("Pro"), d, r)) : d \in SavedDates, r \in SavedRaws}

FileLists == UNION {[1..n -> SavedFiles] : n \in 0..MaxFiles}

Profiles ==
    {ProfileNone,
     ProfileEmpty,
     Profile(Str("free"), Str("active"), NoDays, NoSubscription),
     Profile(Str("free_trial"), Str("active"), Days(5), NoSubscription),
     Profile(Str("PRO_TRIAL"), Str("Active"), NullDays, NoSubscription),
     Profile(Str("team"), Str("past_due"), NoDays, NoSubscription),
     Profile(None, Str("active"), NoDays, NoSubscription)}

\* opening the file for writing fails, or the dump fails part-way
WriteFaults == {"none", "open", "dump"}

\* s[:19]
Slice19(s) == IF Len(s) <= 19 THEN s ELSE SubSeq(s, 1, 19)

\* the tuple appended to updated_tree_data; building it raises when account_data
\* is not an object or its saved_date cannot be sliced
TreeRow(ad, membership, failed) ==
    IF ad.kind # "rec" THEN [raised |-> TRUE, row |-> NoData]
    ELSE LET saved_date == Get(ad.data.saved_date, Str("Unknown"))
         IN  IF ~IsStr(saved_date) THEN [raised |-> TRUE, row |-> NoData]
             ELSE [raised |-> FALSE,
                   row |-> [email |-> Get(ad.data.email, Str("Unknown")),
                            account_type |-> Get(ad.data.account_type, Str("Unknown")),
                            membership |-> membership,
                            saved_date |-> Str(Slice19(saved_date.s)),
                            failed |-> failed]]

\* a worker that turns to the live store when the record has no token
RecordTokenOrLive(raw) ==
    LET live == {r[2] : r \in {x \in store : x[1] = K_Access}}
    IN  IF Truthy(Or(RawGet(raw, K_Access), RawGet(raw, K_Refresh))) \/ live = {}
        THEN Or(RawGet(raw, K_Access), RawGet(raw, K_Refresh))
        ELSE CHOOSE v \in live : TRUE
\* access_token, from the record's raw_data
RecordToken(raw) == Or(RawGet(raw, K_Access), RawGet(raw, K_Refresh))

\* a test that lets an empty string through
HasTokenNotNone(tok) == tok # None
\* if access_token:
HasToken(tok) == Truthy(tok)

\* a worker without the test for None
ApiFailedNever(d) == FALSE
\* if subscription_info is None:
ApiFailed(d) == d.kind = "none"

\* a position counted from 1
FailedIndexOneBased(tree) == Len(tree) + 1
\* the position recorded in failed_accounts
FailedIndex(tree) == Len(tree)

\* the worker's locals, and how an iteration leaves them
Locals ==
    [ad |-> account_data, refreshed |-> refreshed_accounts, tree |-> updated_tree_data,
     failed |-> failed_accounts, processed |-> processed, aborted |-> FALSE]

SetMembership(ad, m) == [ad EXCEPT !.data.membership = Str(m)]

\* except Exception: ... continue.  Raising here leaves the loop and the worker.
ExceptHandler(L) ==
    IF L.ad.kind = "unbound" THEN L
    ELSE LET refreshed == Append(L.refreshed, L.ad)
             failed == Append(L.failed, FailedIndex(L.tree))
             t == TreeRow(L.ad,
                          IF L.ad.kind = "rec"
                          THEN Get(L.ad.data.membership, Str("Refresh failed"))
                          ELSE Str("Refresh failed"),
                          TRUE)
         IN  IF t.raised
             THEN [L EXCEPT !.refreshed = refreshed, !.failed = failed, !.aborted = TRUE]
             ELSE [L EXCEPT !.refreshed = refreshed, !.failed = failed,
                            !.tree = Append(L.tree, t.row)]

\* the two branches that flag the record and continue
FlagFailed(L, m) ==
    LET ad == SetMembership(L.ad, m)
        failed == Append(L.failed, FailedIndex(L.tree))
        t == TreeRow(ad, Str(m), TRUE)
    IN  IF t.raised
        THEN ExceptHandler([L EXCEPT !.ad = ad, !.failed = failed])
        ELSE [L EXCEPT !.ad = ad, !.failed = failed,
                       !.tree = Append(L.tree, t.row),
                       !.refreshed = Append(L.refreshed, ad)]

\* lines 803-814
CountProcessed(L) ==
    LET refreshed == Append(L.refreshed, L.ad)
        t == TreeRow(L.ad, Get(L.ad.data.membership, Str("Unknown")), FALSE)
    IN  IF t.raised
        THEN ExceptHandler([L EXCEPT !.refreshed = refreshed])
        ELSE [L EXCEPT !.refreshed = refreshed, !.tree = Append(L.tree, t.row),
                       !.processed = L.processed + 1]

\* lines 767-782: account_data after a response that is not None
Updated(ad, d) ==
    IF ~TruthyProfile(d) THEN [raised |-> FALSE, ad |-> ad]
    ELSE LET m == format_subscription_type(d)
             tf == TrialFields(d)
         IN  IF m.raised THEN [raised |-> TRUE, ad |-> ad]
             ELSE IF tf.raised THEN [raised |-> TRUE, ad |-> SetMembership(ad, m.val)]
             ELSE [raised |-> FALSE,
                   ad |-> [ad EXCEPT !.data.membership = Str(m.val),
                                     !.data.trial_status = Str(tf.trial_status),
                                     !.data.pro_trial_remaining = Str(tf.pro_trial_remaining)]]

E_NoAccounts == "No saved accounts found"
E_Refreshing == "Error refreshing saved accounts"

\* lines 724-734: list the directory and set up the locals
RefreshStart ==
    /\ rpc = "idle"
    /\ \E listed \in BOOLEAN :
          IF ~listed
          THEN /\ rpc' = "done"
               /\ result' = E_Refreshing
               /\ UNCHANGED total
          ELSE IF files = <<>>
          THEN /\ rpc' = "done"
               /\ result' = E_NoAccounts
               /\ UNCHANGED total
          ELSE /\ rpc' = "loop"
               /\ total' = Len(files)
               /\ UNCHANGED result
    /\ ri' = 1
    /\ files0' = files
    /\ json_files' = names
    /\ UNCHANGED <<files, account_data, refreshed_accounts, updated_tree_data,
                   failed_accounts, processed, hist, rowFile>>
    /\ UNCHANGED <<storeVars, locVars, appVars>>

\* lines 736-829: one iteration of the loop
RefreshRecord ==
    /\ rpc = "loop"
    /\ ri <= total
    /\ \E subscription_info \in Profiles, wf \in WriteFaults :
          LET f == files[ri]
              ad0 == IF f.kind = "corrupt" THEN account_data ELSE f
              L0 == [Locals EXCEPT !.ad = ad0]
              mapping == f.kind = "rec" /\ f.data.raw_data.mapping
              access_token == IF mapping THEN RecordToken(f.data.raw_data) ELSE None
              called == mapping /\ HasToken(access_token)
              up == Updated(ad0, subscription_info)
              writes == called /\ ~ApiFailed(subscription_info) /\ ~up.raised
              out == IF ~mapping THEN ExceptHandler(L0)
                     ELSE IF ~HasToken(access_token) THEN FlagFailed(L0, M_NoToken)
                     ELSE IF ApiFailed(subscription_info) THEN FlagFailed(L0, M_ApiError)
                     ELSE IF up.raised \/ wf # "none"
                          THEN ExceptHandler([L0 EXCEPT !.ad = up.ad])
                     ELSE CountProcessed([L0 EXCEPT !.ad = up.ad])
              written == IF ~writes \/ wf = "open" THEN f
                         ELSE IF wf = "dump" THEN CorruptFile
                         ELSE up.ad
          IN  /\ files' = [files EXCEPT ![ri] = written]
              /\ hist' = Append(hist, [called |-> called,
                                       token |-> access_token,
                                       resp |-> IF called THEN subscription_info
                                                ELSE ProfileNone,
                                       write |-> IF writes THEN wf ELSE "skipped"])
              /\ IF out.aborted
                 THEN /\ rpc' = "done"
                      /\ result' = E_Refreshing
                      /\ account_data' = Unbound
                      /\ refreshed_accounts' = <<>>
                      /\ updated_tree_data' = <<>>
                      /\ failed_accounts' = <<>>
                      /\ processed' = 0
                      /\ rowFile' = <<>>
                      /\ UNCHANGED ri
                 ELSE /\ account_data' = out.ad
                      /\ refreshed_accounts' = out.refreshed
                      /\ updated_tree_data' = out.tree
                      /\ failed_accounts' = out.failed
                      /\ processed' = out.processed
                      /\ rowFile' = IF Len(out.tree) > Len(updated_tree_data)
                                    THEN Append(rowFile, ri) ELSE rowFile
                      /\ ri' = ri + 1
                      /\ UNCHANGED <<rpc, result>>
    /\ UNCHANGED <<total, files0, json_files>>
    /\ UNCHANGED <<storeVars, locVars, appVars>>

\* lines 831-838: the report
RefreshReturn ==
    /\ rpc = "loop"
    /\ ri > total
    /\ rpc' = "done"
    /\ result' = "report"
    /\ UNCHANGED <<files, ri, account_data, refreshed_accounts, updated_tree_data,
                   failed_accounts, processed, total, files0, hist, rowFile, json_files>>
    /\ UNCHANGED <<storeVars, locVars, appVars>>

----------------------------------------------------------------------------
(* The record directory on the interactive thread: list, delete, save.    *)

MaxClock == 4
\* ticks of the clock in one second of a file name's time stamp
TicksPerSecond == 4

AccountOf(email, saved_date) ==
    [email |-> email, account_type |-> Str("Auth_0"),
     membership |-> Str("Pro"), trial_status |-> Str("Not on trial"),
     pro_trial_remaining |-> Str("Not applicable"),
     saved_date |-> saved_date,
     raw_data |-> Mapping(<<<<K_Email, email>>, <<K_Access, VA>>>>)]

\* the files a directory may hold when the program starts
DirFiles ==
    {CorruptFile, ListFile,
     RecordFile(AccountOf(Str("a@x.io"), Str("2024-04-30T09:00:00.250000"))),
     RecordFile(AccountOf(Str("a@x.io"), Str("2024-04-30T09:00:01"))),
     RecordFile(AccountOf(Str("b@x.io"), Str("2024-04-30T09:00:00.250000"))),
     RecordFile(AccountOf(Str("a@x.io"), None)),
     RecordFile(AccountOf(Absent, Str("2024-04-30T09:00:01")))}

DirLists == UNION {[1..n -> DirFiles] : n \in 0..MaxFiles}

\* the name of the i-th file a directory holds when the program starts
OldName(i) == "cursor_account_old_" \o ToString(i) \o ".json"

\* a sequence without its k-th element, and with x put in as its k-th
Remove(seq, k) == [i \in 1..(Len(seq) - 1) |-> IF i < k THEN seq[i] ELSE seq[i + 1]]
Insert(seq, k, x) ==
    [i \in 1..(Len(seq) + 1) |-> IF i < k THEN seq[i] ELSE IF i = k THEN x ELSE seq[i - 1]]

NoMsg == [text |-> "none", email |-> None, saved_date |-> None]
Msg(text, email, saved_date) == [text |-> text, email |-> email, saved_date |-> saved_date]

\* -- load_saved_accounts --------------------------------------------------
LoadStopsAtFirstError(r, rest) == r

\* where the loop goes after the except clause of one file
LoadAfterError(r, rest) == rest

\* the loop of 691-707 over the files fs, from saved_accounts and rows acc
RECURSIVE LoadLoop(_, _)
LoadLoop(fs, acc) ==
    IF fs = <<>> THEN acc
    ELSE LET f == Head(fs)
             t == TreeRow(f, IF f.kind = "rec" THEN Get(f.data.membership, Str("Unknown"))
                             ELSE Str("Unknown"), FALSE)
         IN  IF f.kind = "corrupt"
             THEN LoadAfterError(acc, LoadLoop(Tail(fs), acc))
             ELSE LET kept == [acc EXCEPT !.saved = Append(acc.saved, f)]
                  IN  IF t.raised
                      THEN LoadAfterError(kept, LoadLoop(Tail(fs), kept))
                      ELSE LoadLoop(Tail(fs), [kept EXCEPT !.tree = Append(kept.tree, t.row)])

\* load_saved_accounts: listed is FALSE when os.listdir raises
Load(fs, listed) ==
    IF listed THEN LoadLoop(fs, [saved |-> <<>>, tree |-> <<>>])
    ELSE [saved |-> <<>>, tree |-> <<>>]

\* line 41: the first listing, at the end of construction
LoadAtStartup ==
    /\ msg.text = "starting"
    /\ \E listed \in BOOLEAN :
          /\ saved_accounts' = Load(files, listed).saved
          /\ accounts_tree' = Load(files, listed).tree
          /\ msg' = Msg(IF listed THEN "none" ELSE "Error loading saved accounts", None, None)
    /\ UNCHANGED <<names, clock, save_job>>
    /\ UNCHANGED <<storeVars, locVars, refVars, curVars, fmtVars, uiVars>>

\* -- delete_selected_account ----------------------------------------------
MatchesEmailOnly(f, email, saved_date) ==
    f.kind = "rec" /\ Get(f.data.email, None) = email

\* data.get("email") == email and data.get("saved_date") == saved_date
Matches(f, email, saved_date) ==
    /\ f.kind = "rec"
    /\ Get(f.data.email, None) = email
    /\ Get(f.data.saved_date, None) = saved_date

\* the handler with the index-th row selected; confirmed is the answer to the
\* question, listed is FALSE when os.listdir raises, stuck is the file whose
\* os.remove raises (0 when none does)
DeleteSelected(index, confirmed, listed, stuck) ==
    /\ msg.text # "starting"
    /\ index \in 1..Len(accounts_tree)
    /\ stuck \in 0..Len(files)
    /\ LET selected == saved_accounts[index]
           email == Get(selected.data.email, Str("Unknown"))
           saved_date == Get(selected.data.saved_date, EmptyStr)
           hits == {i \in 1..Len(files) : Matches(files[i], email, saved_date) /\ i # stuck}
           k == FirstOf(hits)
       IN  IF selected.kind # "rec"
           THEN \* account_data.get raises before the try statement
                /\ msg' = Msg("exception", None, None)
                /\ UNCHANGED <<files, names, saved_accounts, accounts_tree>>
           ELSE IF ~confirmed
           THEN /\ msg' = Msg("cancelled", email, saved_date)
                /\ UNCHANGED <<files, names, saved_accounts, accounts_tree>>
           ELSE IF ~listed
           THEN /\ msg' = Msg("Delete Error", email, saved_date)
                /\ UNCHANGED <<files, names, saved_accounts, accounts_tree>>
           ELSE IF k = 0
           THEN /\ msg' = Msg("Not Found", email, saved_date)
                /\ UNCHANGED <<files, names, saved_accounts, accounts_tree>>
           ELSE /\ msg' = Msg("Success", email, saved_date)
                /\ files' = Remove(files, k)
                /\ names' = Remove(names, k)
                /\ saved_accounts' = Load(files', TRUE).saved
                /\ accounts_tree' = Load(files', TRUE).tree
    /\ UNCHANGED <<clock, save_job>>
    /\ UNCHANGED <<rpc, ri, account_data, refreshed_accounts, updated_tree_data,
                   failed_accounts, processed, total, result, files0, hist, rowFile,
                   json_files>>
    /\ UNCHANGED <<storeVars, locVars, curVars, fmtVars, uiVars>>

\* -- save_current_account -------------------------------------------------
\* s.replace(a, b) for one-character a and b
RECURSIVE Replace(_, _, _)
Replace(s, a, b) ==
    IF s = "" THEN ""
    ELSE (IF CharAt(s, 1) = a THEN b ELSE CharAt(s, 1))
            \o Replace(SubSeq(s, 2, Len(s)), a, b)

\* datetime.isoformat() of the clock at tick t: no fraction when it is zero
IsoFormat(t) ==
    "2024-05-01T10:00:0" \o ToString(t \div TicksPerSecond)
        \o (IF t % TicksPerSecond = 0 THEN ""
            ELSE "." \o ToString((t % TicksPerSecond) * (1000000 \div TicksPerSecond)))

\* strftime('%Y%m%d_%H%M%S') of the clock at tick t
Stamp(t) == "20240501_10000" \o ToString(t \div TicksPerSecond)

\* lines 642-643
FileNameOf(email, t) ==
    "cursor_account_" \o Replace(Replace(email, "@", "_"), ".", "_")
        \o "_" \o Stamp(t) \o ".json"

NoJob == [state |-> "idle", save_data |-> NoData, result |-> "none", filename |-> ""]

\* the frame after a refresh of the account with this email
ViewOf(email) ==
    [email_var |-> email, account_type_var |-> "Auth_0", membership_var |-> "Pro",
     trial_status_var |-> "Not on trial", pro_trial_var |-> "Not applicable"]

\* time passes
Tick ==
    /\ clock < MaxClock
    /\ clock' = clock + 1
    /\ UNCHANGED <<names, saved_accounts, accounts_tree, msg, save_job>>
    /\ UNCHANGED <<storeVars, locVars, refVars, curVars, fmtVars, uiVars>>

\* lines 611-636
SaveClick ==
    /\ msg.text # "starting"
    /\ save_job.state = "idle"
    /\ clock < MaxClock
    /\ IF current_account_data = <<>>
       THEN /\ msg' = Msg("No Data", None, None)
            /\ UNCHANGED <<save_job, clock>>
       ELSE /\ save_job' =
                 [state |-> "submitted",
                  save_data |->
                      [email |-> Str(view.email_var),
                       account_type |-> Str(view.account_type_var),
                       membership |-> Str(view.membership_var),
                       trial_status |-> Str(view.trial_status_var),
                       pro_trial_remaining |-> Str(view.pro_trial_var),
                       saved_date |-> Str(IsoFormat(clock)),
                       raw_data |-> Mapping(current_account_data)],
                  result |-> "none", filename |-> ""]
            /\ clock' = clock + 1
            /\ UNCHANGED msg
    /\ UNCHANGED <<names, saved_accounts, accounts_tree>>
    /\ UNCHANGED <<storeVars, locVars, refVars, curVars, fmtVars, uiVars>>

\* lines 638-653; pos is where the directory lists a new file
SaveWorker(pos, wf) ==
    /\ save_job.state = "submitted"
    /\ clock < MaxClock
    /\ pos \in 1..(Len(files) + 1)
    /\ LET filename == FileNameOf(save_job.save_data.email.s, clock)
           old == FirstOf({i \in 1..Len(names) : names[i] = filename})
           content == IF wf = "dump" THEN CorruptFile ELSE RecordFile(save_job.save_data)
       IN  /\ IF wf = "open"
              THEN UNCHANGED <<files, names>>
              ELSE IF old # 0
              THEN /\ files' = [files EXCEPT ![old] = content]
                   /\ UNCHANGED names
              ELSE /\ files' = Insert(files, pos, content)
                   /\ names' = Insert(names, pos, filename)
           /\ save_job' = [save_job EXCEPT !.state = "done",
                                           !.result = IF wf = "none" THEN "success" ELSE "error",
                                           !.filename = filename]
    /\ clock' = clock + 1
    /\ UNCHANGED <<saved_accounts, accounts_tree, msg>>
    /\ UNCHANGED <<rpc, ri, account_data, refreshed_accounts, updated_tree_data,
                   failed_accounts, processed, total, result, files0, hist, rowFile,
                   json_files>>
    /\ UNCHANGED <<storeVars, locVars, curVars, fmtVars, uiVars>>

\* lines 655-679, once the future is done
SaveCollect ==
    /\ save_job.state = "done"
    /\ IF save_job.result = "error"
       THEN /\ msg' = Msg("Save Error", None, None)
            /\ UNCHANGED <<saved_accounts, accounts_tree>>
       ELSE /\ msg' = Msg("Saved", None, None)
            /\ saved_accounts' = Load(files, TRUE).saved
            /\ accounts_tree' = Load(files, TRUE).tree
    /\ save_job' = NoJob
    /\ UNCHANGED <<names, clock>>
    /\ UNCHANGED <<storeVars, locVars, refVars, curVars, fmtVars, uiVars>>

----------------------------------------------------------------------------
(* A remote response and what the two refresh paths make of it.            *)
\* what requests.get meets: a 2xx answer with a body, or a failure
Response(answer, body) == [answer |-> answer, body |-> body]

\* get_stripe_profile: the decoded body of a 2xx answer whose body is JSON,
\* None after any exception (a JSON null body decodes to None as well)
get_stripe_profile(response) ==
    IF response.answer = "ok" THEN response.body ELSE ProfileNone

\* account_data.get(key, default) on the items read from ItemTable
ItemGet(data, key, default) ==
    LET hits == {i \in 1..Len(data) : data[i][1] = key}
    IN  IF hits = {} THEN default ELSE PyStr(data[FirstOf(hits)][2])

\* a derivation that reports an expired trial on the first fetch too
TrialVarsAsBulk(d) == TrialFields(d)
\* lines 586-598: the two trial fields of the frame
TrialVars(d) ==
    LET mt == Get(d.membershipType, EmptyStr)
    IN  IF d.kind = "list" \/ ~IsStr(mt)
        THEN [raised |-> TRUE, trial_status |-> "", pro_trial_remaining |-> ""]
        ELSE IF Contains(Lower(mt.s), "trial")
        THEN LET days_remaining == d.daysRemainingOnTrial
             IN  IF days_remaining.st = "num" /\ days_remaining.n > 0
                 THEN [raised |-> FALSE,
                       trial_status |-> "Active - " \o ToString(days_remaining.n)
                                            \o " days remaining",
                       pro_trial_remaining |-> ToString(days_remaining.n)
                                            \o " days remaining"]
                 ELSE [raised |-> FALSE, trial_status |-> "Trial (checking...)",
                       pro_trial_remaining |-> "Checking..."]
        ELSE [raised |-> FALSE, trial_status |-> "Not on trial",
              pro_trial_remaining |-> "Not applicable"]

\* update_ui_with_account_data: the frame it leaves, and whether it raised
\* on the way (the variables set before the exception keep their new text)
update_ui_with_account_data(v, data, subscription_info) ==
    LET v1 == [v EXCEPT !.email_var = ItemGet(data, K_Email, "Not found"),
                        !.account_type_var = ItemGet(data, K_SignUp, "Not found")]
    IN  IF TruthyProfile(subscription_info)
        THEN LET membership == format_subscription_type(subscription_info)
                 tv == TrialVars(subscription_info)
             IN  IF membership.raised THEN [raised |-> TRUE, view |-> v1]
                 ELSE IF tv.raised
                 THEN [raised |-> TRUE,
                       view |-> [v1 EXCEPT !.membership_var = membership.val]]
                 ELSE [raised |-> FALSE,
                       view |-> [v1 EXCEPT !.membership_var = membership.val,
                                           !.trial_status_var = tv.trial_status,
                                           !.pro_trial_var = tv.pro_trial_remaining]]
        ELSE [raised |-> FALSE,
              view |-> [v1 EXCEPT !.membership_var =
                                      ItemGet(data, K_Member, "Not found"),
                                  !.trial_status_var = "Unable to fetch live data",
                                  !.pro_trial_var = "Unable to fetch"]]

\* what was made of subscription_data, and by which code
Shown(by, raised, membership, trial_status, pro_trial_remaining) ==
    [by |-> by, raised |-> raised, membership |-> membership,
     trial_status |-> trial_status, pro_trial_remaining |-> pro_trial_remaining]
NotShown == Shown("none", FALSE, "", "", "")

\* format_subscription_type applied to the response
Format ==
    /\ LET r == format_subscription_type(subscription_data)
       IN  shown' = Shown("format", r.raised, r.val, "", "")
    /\ UNCHANGED subscription_data
    /\ UNCHANGED <<storeVars, locVars, refVars, recVars, curVars, uiVars>>

\* the refresh of the current account shows the response (lines 580-604)
ShowCurrent ==
    /\ LET r == update_ui_with_account_data(BlankView, current_account_data,
                                             subscription_data)
       IN  shown' = Shown("current", r.raised, r.view.membership_var,
                          r.view.trial_status_var, r.view.pro_trial_var)
    /\ UNCHANGED subscription_data
    /\ UNCHANGED <<storeVars, locVars, refVars, recVars, curVars, uiVars>>

\* the record a bulk refresh is tried on
SampleRecord == RecordFile(AccountOf(Str("a@x.io"), Str("2024-04-30T09:00:01")))

\* the bulk refresh takes the response into a record (lines 751-782)
ShowBulk ==
    /\ IF ApiFailed(subscription_data)
       THEN shown' = Shown("bulk", FALSE, "API Error - Auth Failed",
                           SampleRecord.data.trial_status.s,
                           SampleRecord.data.pro_trial_remaining.s)
       ELSE LET u == Updated(SampleRecord, subscription_data)
            IN  shown' = Shown("bulk", u.raised, u.ad.data.membership.s,
                               u.ad.data.trial_status.s,
                               u.ad.data.pro_trial_remaining.s)
    /\ UNCHANGED subscription_data
    /\ UNCHANGED <<storeVars, locVars, refVars, recVars, curVars, uiVars>>

----------------------------------------------------------------------------
(* The refresh of the current account: refresh_account_info, its worker    *)
(* and _check_refresh_future.                                              *)
E_CannotConnect ==
    "Cannot connect to Cursor database. Make sure Cursor is installed and has been run at least once."
E_NoAccessToken == "No access token found. Please login to Cursor first."
E_Database == "Database error"

keys_to_get == <<K_Email, K_Refresh, K_Access, K_SignUp, K_Member>>

RECURSIVE ReadKeys(_, _)
\* for key in keys_to_get: SELECT value ... ; if result: account_data[key] = result[0]
ReadKeys(rows, ks) ==
    IF ks = <<>> THEN <<>>
    ELSE LET hit == {r \in rows : r[1] = Head(ks)}
         IN  (IF hit = {} THEN <<>> ELSE <<CHOOSE r \in hit : TRUE>>)
                 \o ReadKeys(rows, Tail(ks))

\* a fallback that forgets the refresh token
DbTokenAccessOnly(data) == RawGet(Mapping(data), K_Access)
\* account_data.get("cursorAuth/accessToken") or account_data.get("cursorAuth/refreshToken")
DbToken(data) == Or(RawGet(Mapping(data), K_Access), RawGet(Mapping(data), K_Refresh))

\* refresh_account_info, from the Refresh button or the timer of __init__
RefreshClick ==
    /\ pc = "idle"
    /\ cur.state = "idle"
    /\ cur' = Submitted
    /\ UNCHANGED <<view, current_account_data>>
    /\ UNCHANGED <<storeVars, locVars, refVars, recVars, fmtVars, uiVars>>

\* a worker that tidies the store while it reads: it deletes the rows whose
\* value is empty
RefreshReadPrunesEmptyRows ==
    /\ cur.state = "submitted"
    /\ \E got \in ConnectResults, selected \in BOOLEAN :
          IF ~got
          THEN /\ cur' = [cur EXCEPT !.state = "done", !.kind = "error",
                                     !.error = E_CannotConnect]
               /\ UNCHANGED <<lpc, token, cands, store>>
          ELSE IF ~selected
          THEN /\ cur' = [cur EXCEPT !.state = "done", !.kind = "error",
                                     !.error = E_Database]
               /\ UNCHANGED <<lpc, token, cands, store>>
          ELSE /\ cur' = [cur EXCEPT !.state = "locating", !.read = TRUE,
                                     !.data = ReadKeys(store, keys_to_get)]
               /\ store' = {r \in store : r[2] # EmptyStr}
               /\ lpc' = "storage"
               /\ token' = None
               /\ cands' = NoCands
    /\ UNCHANGED <<cfg, logs, view, current_account_data>>
    /\ UNCHANGED <<dbExists, conn, pc, op, items, idx, pre, outcome>>
    /\ UNCHANGED <<refVars, recVars, fmtVars, uiVars>>

\* lines 489-513: connect and read the five keys; the worker sees the
\* committed rows, then starts get_token_from_cursor_config
RefreshRead ==
    /\ cur.state = "submitted"
    /\ \E got \in ConnectResults, selected \in BOOLEAN :
          IF ~got
          THEN /\ cur' = [cur EXCEPT !.state = "done", !.kind = "error",
                                     !.error = E_CannotConnect]
               /\ UNCHANGED <<lpc, token, cands>>
          ELSE IF ~selected
          THEN \* except sqlite3.Error as e
               /\ cur' = [cur EXCEPT !.state = "done", !.kind = "error",
                                     !.error = E_Database]
               /\ UNCHANGED <<lpc, token, cands>>
          ELSE /\ cur' = [cur EXCEPT !.state = "locating", !.read = TRUE,
                                     !.data = ReadKeys(store, keys_to_get)]
               /\ lpc' = "storage"
               /\ token' = None
               /\ cands' = NoCands
    /\ UNCHANGED <<cfg, logs, view, current_account_data>>
    /\ UNCHANGED <<storeVars, refVars, recVars, fmtVars, uiVars>>

\* lines 515-531, once the locator has returned
RefreshCall(response) ==
    /\ cur.state = "locating"
    /\ lpc = "done"
    /\ LET access_token == IF Truthy(token) THEN token ELSE DbToken(cur.data)
       IN  IF ~Truthy(access_token)
           THEN cur' = [cur EXCEPT !.state = "done", !.kind = "error",
                                   !.error = E_NoAccessToken]
           ELSE cur' = [cur EXCEPT !.state = "done", !.kind = "success",
                                   !.called = TRUE,
                                   !.subscription_info = get_stripe_profile(response)]
    /\ lpc' = "idle"
    /\ UNCHANGED <<cfg, logs, token, cands, view, current_account_data>>
    /\ UNCHANGED <<storeVars, refVars, recVars, fmtVars, uiVars>>

\* _check_refresh_future once the future is done
RefreshCollect ==
    /\ pc = "idle"
    /\ cur.state = "done"
    /\ IF cur.kind = "error"
       THEN /\ cur' = [cur EXCEPT !.state = "idle", !.shown = "error"]
            /\ UNCHANGED <<view, current_account_data>>
       ELSE LET r == update_ui_with_account_data(view, cur.data, cur.subscription_info)
            IN  /\ view' = r.view
                /\ IF r.raised
                   THEN \* except Exception as e: "Unexpected error"
                        /\ cur' = [cur EXCEPT !.state = "idle", !.shown = "unexpected"]
                        /\ UNCHANGED current_account_data
                   ELSE /\ cur' = [cur EXCEPT !.state = "idle", !.shown = "success"]
                        /\ current_account_data' = cur.data
    /\ UNCHANGED <<storeVars, locVars, refVars, recVars, fmtVars, uiVars>>

----------------------------------------------------------------------------
(* export_account_data                                                     *)

\* the path get_token_from_cursor_config reads as its structured config file
StoragePath == "Cursor/User/globalStorage/storage.json"

\* what filedialog.asksaveasfilename may return: "" when the dialog is
\* cancelled, or the path of any file the user names; of the files the
\* locator reads the model offers the config file
ExportTargets == {"", "Documents/export.json", StoragePath}

\* export_data as json.dump writes it, members in insertion order
ExportDoc ==
    << <<"export_date", Str(IsoFormat(clock))>>,
       <<"email", Str(view.email_var)>>,
       <<"account_type", Str(view.account_type_var)>>,
       <<"membership", Str(view.membership_var)>>,
       <<"trial_status", Str(view.trial_status_var)>>,
       <<"raw_data", JsonObj>> >>

\* lines 1129-1163; wf is where the write fails: at open (the file is left
\* as it was) or in json.dump (the file was truncated and holds a part of
\* the document)
ExportAccountData(filename, wf) ==
    /\ msg.text # "starting"
    /\ IF current_account_data = <<>>
       THEN /\ msg' = Msg("No Data", None, None)
            /\ cfg' = cfg
       ELSE IF filename = ""
       THEN UNCHANGED <<msg, cfg>>
       ELSE IF wf = "open"
       THEN /\ msg' = Msg("Export Error", None, None)
            /\ cfg' = cfg
       ELSE /\ msg' = Msg(IF wf = "dump" THEN "Export Error" ELSE "Exported",
                          None, None)
            /\ cfg' = IF filename # StoragePath THEN cfg
                      ELSE IF wf = "dump" THEN [state |-> "unreadable", doc |-> <<>>]
                      ELSE [state |-> "ok", doc |-> ExportDoc]
    /\ UNCHANGED <<names, saved_accounts, accounts_tree, clock, save_job>>
    /\ UNCHANGED <<storeVars, logs, lpc, token, cands, refVars, curVars, fmtVars, uiVars>>

----------------------------------------------------------------------------
(* The controls: the widget tree of setup_ui, set_buttons_state and the    *)
(* background jobs the handlers submit to the executor.                    *)
\* the most jobs submitted and not yet collected (the executor runs four
\* at a time, so none of them waits for a worker)
MaxJobs == 2

W(name, parent, class) == [name |-> name, parent |-> parent, class |-> class]

\* every frame and button that setup_ui creates under the root window
\* (labels, entries, the tree view and the scrollbar hold no children)
Tree ==
    { W("main_frame", "root", "ttk.Frame"),
      W("warning_frame", "main_frame", "tk.Frame"),
      W("info_frame", "main_frame", "ttk.LabelFrame"),
      W("button_frame", "main_frame", "ttk.Frame"),
      W("Refresh", "button_frame", "ttk.Button"),
      W("Save Account", "button_frame", "ttk.Button"),
      W("Manual Input", "button_frame", "ttk.Button"),
      W("Export Data", "button_frame", "ttk.Button"),
      W("Logout", "button_frame", "ttk.Button"),
      W("saved_frame", "main_frame", "ttk.LabelFrame"),
      W("saved_buttons_frame", "saved_frame", "ttk.Frame"),
      W("Restore Selected", "saved_buttons_frame", "ttk.Button"),
      W("Delete Selected", "saved_buttons_frame", "ttk.Button"),
      W("refresh_frame", "saved_frame", "ttk.Frame"),
      W("Refresh Saved Accounts", "refresh_frame", "ttk.Button") }

winfo_children(parent) == {w \in Tree : w.parent = parent}

\* isinstance(w, cls): of the classes in the tree none is a subclass of
\* another (ttk.LabelFrame and tk.Frame are not ttk.Frame)
isinstance(w, class) == w.class = class

ButtonNames == {w.name : w \in {x \in Tree : x.class = "ttk.Button"}}

\* the buttons the three nested loops of set_buttons_state come to
Configured ==
    {button.name : button \in
        {b \in Tree :
            /\ isinstance(b, "ttk.Button")
            /\ \E widget \in winfo_children("root"), child \in Tree :
                  /\ isinstance(widget, "ttk.Frame")
                  /\ child \in winfo_children(widget.name)
                  /\ isinstance(child, "ttk.Frame")
                  /\ b \in winfo_children(child.name)}}

\* state "normal" is TRUE, "disabled" is FALSE
set_buttons_state(enabled) ==
    [n \in ButtonNames |-> IF n \in Configured THEN enabled ELSE buttons[n]]

\* what a worker returns: each of the three wraps its whole body in
\* try/except Exception and returns a mapping, with the key "error" or
\* without it
Results == {"success", "error"}

\* the future that executor.submit returns is an object of its own; it is
\* told apart here by the least number no uncollected future carries
FutureId ==
    CHOOSE i \in 1..MaxJobs :
        /\ \A j \in 1..Len(jobs) : jobs[j].id # i
        /\ \A k \in 1..(i - 1) : \E j \in 1..Len(jobs) : jobs[j].id = k

\* a submitted job: at is the number of the record file a bulk refresh is
\* at (0 before the first), done is future.done(), value is what
\* future.result() gives once it is done
Job(kind) ==
    [kind |-> kind, at |-> 0, done |-> FALSE, value |-> "none", id |-> FutureId]

\* refresh_account_info: disable, submit, poll
refresh_account_info ==
    /\ buttons' = set_buttons_state(FALSE)
    /\ jobs' = Append(jobs, Job("refresh"))

\* root.after(100, self.refresh_account_info), scheduled by __init__
StartupRefresh ==
    /\ startup
    /\ Len(jobs) < MaxJobs
    /\ refresh_account_info
    /\ startup' = FALSE
    /\ UNCHANGED <<storeVars, locVars, refVars, recVars, curVars, fmtVars>>

ClickRefresh ==
    /\ buttons["Refresh"]
    /\ Len(jobs) < MaxJobs
    /\ refresh_account_info
    /\ UNCHANGED <<storeVars, locVars, refVars, recVars, curVars, fmtVars, startup>>

\* restore_selected_account and apply_manual_input end, when their
\* transaction commits, by calling refresh_account_info; written is whether
\* it did (otherwise the handler leaves the controls alone)
ClickRestore(written) ==
    /\ buttons["Restore Selected"]
    /\ Len(jobs) < MaxJobs
    /\ IF written THEN refresh_account_info ELSE UNCHANGED <<buttons, jobs>>
    /\ UNCHANGED <<storeVars, locVars, refVars, recVars, curVars, fmtVars, startup>>

ClickManualInput(written) ==
    /\ buttons["Manual Input"]
    /\ Len(jobs) < MaxJobs
    /\ IF written THEN refresh_account_info ELSE UNCHANGED <<buttons, jobs>>
    /\ UNCHANGED <<storeVars, locVars, refVars, recVars, curVars, fmtVars, startup>>

\* refresh_saved_accounts: disable, submit, poll
ClickRefreshSaved ==
    /\ buttons["Refresh Saved Accounts"]
    /\ Len(jobs) < MaxJobs
    /\ buttons' = set_buttons_state(FALSE)
    /\ jobs' = Append(jobs, Job("refresh_saved"))
    /\ UNCHANGED <<storeVars, locVars, refVars, recVars, curVars, fmtVars, startup>>

\* save_current_account, when there is an account to save
ClickSave ==
    /\ buttons["Save Account"]
    /\ Len(jobs) < MaxJobs
    /\ buttons' = set_buttons_state(FALSE)
    /\ jobs' = Append(jobs, Job("save"))
    /\ UNCHANGED <<storeVars, locVars, refVars, recVars, curVars, fmtVars, startup>>

\* a worker thread goes on: a bulk refresh to its next record file, any
\* job to its return
WorkerStep(j) ==
    /\ j \in 1..Len(jobs)
    /\ ~jobs[j].done
    /\ \E value \in Results :
          jobs' = [jobs EXCEPT ![j] =
                      IF jobs[j].kind = "refresh_saved" /\ jobs[j].at < Len(files)
                      THEN [@ EXCEPT !.at = @ + 1]
                      ELSE [@ EXCEPT !.done = TRUE, !.value = value]]
    /\ UNCHANGED <<storeVars, locVars, refVars, recVars, curVars, fmtVars, buttons, startup>>

\* the polling callback without its finally clause: the buttons are enabled
\* only after a result that is not an error
CheckFutureWithoutFinally(j) ==
    /\ j \in 1..Len(jobs)
    /\ jobs[j].done
    /\ jobs' = Remove(jobs, j)
    /\ buttons' = IF jobs[j].value = "error" THEN buttons
                  ELSE set_buttons_state(TRUE)
    /\ UNCHANGED <<storeVars, locVars, refVars, recVars, curVars, fmtVars, startup>>

\* _check_refresh_future, _check_save_future, _check_refresh_saved_future
\* once the future is done: the finally clause enables the buttons (while
\* it is not done the callback only schedules itself again)
CheckFuture(j) ==
    /\ j \in 1..Len(jobs)
    /\ jobs[j].done
    /\ jobs' = Remove(jobs, j)
    /\ buttons' = set_buttons_state(TRUE)
    /\ UNCHANGED <<storeVars, locVars, refVars, recVars, curVars, fmtVars, startup>>

----------------------------------------------------------------------------
(* _refresh_saved_accounts_worker on its thread, beside the handlers of    *)
(* the interactive thread: an iteration reads its file, calls the remote   *)
(* endpoint and writes the file, and a handler may run between the two.    *)

\* the position in the directory of the file named n, 0 when there is none
PositionOf(n) == FirstOf({k \in 1..Len(names) : names[k] = n})

\* how an iteration that ended with the locals out leaves the worker
Continue(out) ==
    IF out.aborted
    THEN /\ rpc' = "done"
         /\ result' = E_Refreshing
         /\ account_data' = Unbound
         /\ refreshed_accounts' = <<>>
         /\ updated_tree_data' = <<>>
         /\ failed_accounts' = <<>>
         /\ processed' = 0
         /\ rowFile' = <<>>
         /\ UNCHANGED ri
    ELSE /\ rpc' = "loop"
         /\ account_data' = out.ad
         /\ refreshed_accounts' = out.refreshed
         /\ updated_tree_data' = out.tree
         /\ failed_accounts' = out.failed
         /\ processed' = out.processed
         /\ rowFile' = IF Len(out.tree) > Len(updated_tree_data)
                       THEN Append(rowFile, ri) ELSE rowFile
         /\ ri' = ri + 1
         /\ UNCHANGED result

\* lines 736-765: open and decode the file json_files[ri], take the token,
\* and, with a token, send the request
RefreshRecordRead ==
    /\ rpc = "loop"
    /\ ri <= total
    /\ LET k == PositionOf(json_files[ri])
           f == IF k = 0 THEN CorruptFile ELSE files[k]
           ad0 == IF f.kind = "corrupt" THEN account_data ELSE f
           L0 == [Locals EXCEPT !.ad = ad0]
           mapping == f.kind = "rec" /\ f.data.raw_data.mapping
           access_token == IF mapping THEN RecordToken(f.data.raw_data) ELSE None
           called == mapping /\ HasToken(access_token)
       IN  IF called
           THEN /\ rpc' = "fetching"
                /\ account_data' = f
                /\ UNCHANGED <<ri, refreshed_accounts, updated_tree_data, failed_accounts,
                               processed, result, hist, rowFile>>
           ELSE /\ Continue(IF ~mapping THEN ExceptHandler(L0)
                            ELSE FlagFailed(L0, M_NoToken))
                /\ hist' = Append(hist, [called |-> FALSE, token |-> access_token,
                                         resp |-> ProfileNone, write |-> "skipped"])
    /\ UNCHANGED <<files, total, files0, json_files>>
    /\ UNCHANGED <<storeVars, locVars, appVars>>

\* lines 767-829: the response has come; update account_data, write the file
\* under its name and append the entry.  open(filepath, 'w') creates the
\* file, at some position pos of the listing, when no file has that name
RefreshRecordWrite(subscription_info, wf, pos) ==
    /\ rpc = "fetching"
    /\ pos \in 1..(Len(files) + 1)
    /\ LET k == PositionOf(json_files[ri])
           L0 == Locals
           up == Updated(account_data, subscription_info)
           writes == ~ApiFailed(subscription_info) /\ ~up.raised
           written == IF wf = "dump" THEN CorruptFile ELSE up.ad
           out == IF ApiFailed(subscription_info) THEN FlagFailed(L0, M_ApiError)
                  ELSE IF up.raised \/ wf # "none"
                       THEN ExceptHandler([L0 EXCEPT !.ad = up.ad])
                  ELSE CountProcessed([L0 EXCEPT !.ad = up.ad])
       IN  /\ IF ~writes \/ wf = "open"
              THEN UNCHANGED <<files, names>>
              ELSE IF k # 0
              THEN /\ files' = [files EXCEPT ![k] = written]
                   /\ UNCHANGED names
              ELSE /\ files' = Insert(files, pos, written)
                   /\ names' = Insert(names, pos, json_files[ri])
           /\ hist' = Append(hist, [called |-> TRUE, token |-> RecordToken(account_data.data.raw_data),
                                    resp |-> subscription_info,
                                    write |-> IF writes THEN wf ELSE "skipped"])
           /\ Continue(out)
    /\ UNCHANGED <<total, files0, json_files>>
    /\ UNCHANGED <<saved_accounts, accounts_tree, clock, msg, save_job>>
    /\ UNCHANGED <<storeVars, locVars, curVars, fmtVars, uiVars>>

\* _check_refresh_saved_future, once the future is done: on a report the
\* records and the rows are replaced by those of the report
CheckRefreshSavedFuture ==
    /\ rpc = "done"
    /\ rpc' = "collected"
    /\ IF result = "report"
       THEN /\ saved_accounts' = refreshed_accounts
            /\ accounts_tree' = updated_tree_data
       ELSE UNCHANGED <<saved_accounts, accounts_tree>>
    /\ UNCHANGED <<files, ri, account_data, refreshed_accounts, updated_tree_data,
                   failed_accounts, processed, total, result, files0, hist, rowFile,
                   json_files>>
    /\ UNCHANGED <<names, clock, msg, save_job>>
    /\ UNCHANGED <<storeVars, locVars, curVars, fmtVars, uiVars>>

----------------------------------------------------------------------------
(* Specifications.                                                         *)

StoreIdle ==
    /\ conn = NoConn
    /\ pc = "idle"
    /\ op = "none"
    /\ items = <<>>
    /\ idx = 1
    /\ pre = store
    /\ outcome = "none"

LocatorIdle ==
    /\ cfg = [state |-> "missing", doc |-> <<>>]
    /\ logs = [state |-> "missing", files |-> <<>>]
    /\ lpc = "idle"
    /\ token = None
    /\ cands = NoCands

RefreshIdle ==
    /\ rpc = "idle"
    /\ ri = 1
    /\ account_data = Unbound
    /\ refreshed_accounts = <<>>
    /\ updated_tree_data = <<>>
    /\ failed_accounts = <<>>
    /\ processed = 0
    /\ total = 0
    /\ result = "none"
    /\ files0 = files
    /\ hist = <<>>
    /\ rowFile = <<>>
    /\ json_files = <<>>

RecordsIdle ==
    /\ names = [i \in 1..Len(files) |-> OldName(i)]
    /\ saved_accounts = <<>>
    /\ accounts_tree = <<>>
    /\ clock = 0
    /\ msg = NoMsg
    /\ save_job = NoJob

CurrentIdle ==
    /\ view = BlankView
    /\ current_account_data = <<>>
    /\ cur = NoRefresh

FormatIdle ==
    /\ subscription_data = ProfileNone
    /\ shown = NotShown

UiIdle ==
    /\ buttons = [n \in ButtonNames |-> TRUE]
    /\ jobs = <<>>
    /\ startup = FALSE

AppIdle == RecordsIdle /\ CurrentIdle /\ FormatIdle /\ UiIdle

\* the rows of ItemTable the locator may meet
LocStores ==
    {rows \in SUBSET (({K_Access} \X {VB, Str("bbbbbbbbbbbbbbbbbbbb"), Str("{\"token\":\"JJJ\"}")})
                        \cup ({K_Refresh} \X {VB, Str("[]")})) : UniqueKeys(rows)}

InitLocator ==
    /\ dbExists \in BOOLEAN
    /\ store \in LocStores
    /\ (~dbExists => store = {})
    /\ StoreIdle
    /\ cfg \in Cfgs
    /\ logs \in LogDirs
    /\ lpc = "storage"
    /\ token = None
    /\ cands = NoCands
    /\ files = <<>>
    /\ RefreshIdle
    /\ AppIdle

NextLocator ==
    \/ LocateStorage
    \/ LocateSqlite
    \/ LocateSession

SpecLocator == InitLocator /\ [][NextLocator]_vars

InitStore ==
    /\ dbExists \in BOOLEAN
    /\ store \in InitStores
    /\ (~dbExists => store = {})
    /\ StoreIdle
    /\ LocatorIdle
    /\ files = <<>>
    /\ RefreshIdle
    /\ AppIdle

NextStore ==
    \/ \E raw \in RawDatas : RestoreBegin(raw)
    \/ RestoreWrite
    \/ RestoreCommit
    \/ RestoreFinally
    \/ \E e \in EmailTexts, a \in AccessTexts, r \in RefreshTexts, t \in AccountTypes :
          ManualApply(e, a, r, t)
    \/ ManualWrite
    \/ ManualCommit
    \/ ManualReturn
    \/ LogoutBegin
    \/ LogoutDelete
    \/ LogoutCommit
    \/ LogoutFinally

SpecStore == InitStore /\ [][NextStore]_vars

InitRefresh ==
    /\ dbExists = FALSE
    /\ store = {}
    /\ StoreIdle
    /\ LocatorIdle
    /\ files \in FileLists
    /\ RefreshIdle
    /\ AppIdle

NextRefresh ==
    \/ RefreshStart
    \/ RefreshRecord
    \/ RefreshReturn

SpecRefresh == InitRefresh /\ [][NextRefresh]_vars

\* the accounts whose refresh the frame may show
Views == {ViewOf("a@x.io"), ViewOf("b@x.io"), BlankView}

InitRecords ==
    /\ dbExists = FALSE
    /\ store = {}
    /\ StoreIdle
    /\ LocatorIdle
    /\ files \in DirLists
    /\ RefreshIdle
    /\ names = [i \in 1..Len(files) |-> OldName(i)]
    /\ saved_accounts = <<>>
    /\ accounts_tree = <<>>
    /\ clock = 0
    /\ msg = Msg("starting", None, None)
    /\ save_job = NoJob
    /\ view \in Views
    /\ current_account_data =
          IF view = BlankView THEN <<>>
          ELSE <<<<K_Email, Str(view.email_var)>>, <<K_Access, VA>>>>
    /\ cur = NoRefresh
    /\ FormatIdle
    /\ UiIdle

NextRecords ==
    \/ LoadAtStartup
    \/ \E index \in 1..MaxFiles, confirmed \in BOOLEAN, listed \in BOOLEAN,
          stuck \in 0..MaxFiles :
          DeleteSelected(index, confirmed, listed, stuck)

SpecRecords == InitRecords /\ [][NextRecords]_vars

NextSave ==
    \/ LoadAtStartup
    \/ Tick
    \/ SaveClick
    \/ \E pos \in 1..(MaxFiles + MaxClock), wf \in WriteFaults : SaveWorker(pos, wf)
    \/ SaveCollect

SpecSave == InitRecords /\ [][NextSave]_vars

\* the record directories the controls are tried on: only the number of
\* record files matters to them
UiDirs ==
    {[i \in 1..n |-> RecordFile(AccountOf(Str("a@x.io"), Str("2024-04-30T09:00:01")))] :
        n \in 0..MaxFiles}

\* the window after setup_ui, with the first refresh scheduled
InitUi ==
    /\ dbExists = FALSE
    /\ store = {}
    /\ StoreIdle
    /\ LocatorIdle
    /\ files \in UiDirs
    /\ RefreshIdle
    /\ RecordsIdle
    /\ CurrentIdle
    /\ FormatIdle
    /\ buttons = [n \in ButtonNames |-> TRUE]
    /\ jobs = <<>>
    /\ startup = TRUE

NextUi ==
    \/ StartupRefresh
    \/ ClickRefresh
    \/ \E written \in BOOLEAN : ClickRestore(written)
    \/ \E written \in BOOLEAN : ClickManualInput(written)
    \/ ClickRefreshSaved
    \/ ClickSave
    \/ \E j \in 1..MaxJobs : WorkerStep(j)
    \/ \E j \in 1..MaxJobs : CheckFuture(j)

SpecUi == InitUi /\ [][NextUi]_vars

\* the window over a directory of one record file
InitUiFair ==
    /\ dbExists = FALSE
    /\ store = {}
    /\ StoreIdle
    /\ LocatorIdle
    /\ files \in {d \in UiDirs : Len(d) = 1}
    /\ RefreshIdle
    /\ RecordsIdle
    /\ CurrentIdle
    /\ FormatIdle
    /\ buttons = [n \in ButtonNames |-> TRUE]
    /\ jobs = <<>>
    /\ startup = TRUE

\* the same window with its scheduling: a worker thread of the executor
\* goes on until it returns (the executor has four threads for at most
\* MaxJobs futures, requests.get is given timeout=10, and sqlite3.connect
\* waits five seconds for a lock), and the main loop runs every callback
\* that root.after has scheduled; nothing makes the user click. The
\* directory holds one record file, so a bulk refresh takes two steps
SpecUiFair ==
    /\ InitUiFair
    /\ [][NextUi]_vars
    /\ \A j \in 1..MaxJobs : WF_vars(WorkerStep(j)) /\ WF_vars(CheckFuture(j))

\* the bodies a 2xx answer may carry
MembershipTypes ==
    {Absent, None, EmptyStr, Str("pro"), Str("Pro_Trial"), Str("pro_trial"),
     Str("free_trial"), Str("team"), Str("enterprise"), Str("hobby")}
Statuses ==
    {Absent, None, EmptyStr, Str("active"), Str("ACTIVE"), Str("past_due"),
     Str("Past_Due")}
DaysFields == {NoDays, NullDays, Days(0), Days(3)}
Subscriptions == {NoSubscription, Subscription(Str("pro"), Str("active"))}
\* bodies of the old format: no membershipType, a plan nickname and a status
Nicknames ==
    {Str("pro"), Str("pro_trial"), Str("Free_Trial"), Str("team_monthly"),
     Str("enterprise"), Str("hobby")}
LegacyStatuses == {Str("active"), Str("Active"), Str("canceled")}
LegacyBodies ==
    {Profile(Absent, Absent, NoDays, Subscription(n, st)) :
        n \in Nicknames, st \in LegacyStatuses}
Bodies ==
    {Profile(mt, st, days, sub) :
        mt \in MembershipTypes, st \in Statuses, days \in DaysFields,
        sub \in Subscriptions}
      \cup LegacyBodies
      \cup {ProfileList, ProfileNone}
Responses ==
    {Response("ok", body) : body \in Bodies}
      \cup {Response(o, ProfileNone) : o \in {"http_error", "network", "timeout", "malformed"}}

InitFormat ==
    /\ dbExists = FALSE
    /\ store = {}
    /\ StoreIdle
    /\ LocatorIdle
    /\ files = <<>>
    /\ RefreshIdle
    /\ RecordsIdle
    /\ CurrentIdle
    /\ UiIdle
    /\ subscription_data \in {get_stripe_profile(r) : r \in Responses}
    /\ shown = NotShown

NextFormat ==
    \/ Format
    \/ ShowCurrent
    \/ ShowBulk

SpecFormat == InitFormat /\ [][NextFormat]_vars

\* the stores, config files, log directories, records and answers the
\* refresh of the current account is tried with
AccountStores ==
    {{<<K_Refresh, VB>>},
     {<<K_Email, Str("a@x.io")>>, <<K_Access, EmptyStr>>, <<K_Member, Str("pro")>>}}
AccountCfgs ==
    {[state |-> "missing", doc |-> <<>>],
     [state |-> "ok", doc |-> <<<<K_Access, Str("CCCCCCCCCCCCCCCCCCCCC")>>>>]}
AccountLogs == {[state |-> "missing", files |-> <<>>]}
AccountRaws == {Mapping(<<<<K_Email, Str("b@x.io")>>, <<K_Refresh, VB>>>>)}
AccountResponses ==
    {Response("network", ProfileNone),
     Response("ok", Profile(Str("pro"), Str("active"), NoDays, NoSubscription))}

InitAccount ==
    /\ dbExists \in BOOLEAN
    /\ store \in IF dbExists THEN AccountStores ELSE {{}}
    /\ StoreIdle
    /\ cfg \in AccountCfgs
    /\ logs \in AccountLogs
    /\ lpc = "idle"
    /\ token = None
    /\ cands = NoCands
    /\ files = <<>>
    /\ RefreshIdle
    /\ AppIdle

NextAccount ==
    \/ RefreshClick
    \/ RefreshRead
    \/ LocateStorage
    \/ LocateSqlite
    \/ LocateSession
    \/ \E response \in AccountResponses : RefreshCall(response)
    \/ RefreshCollect
    \/ \E raw \in AccountRaws : RestoreBegin(raw)
    \/ RestoreWrite
    \/ RestoreCommit
    \/ RestoreFinally
    \/ ManualApply("a@x.io", "AAAAAAAAAAAAAAAAAAAAA\n", "BBBBBBBBBBBBBBBBBBBBB\n", "Auth_0")
    \/ ManualWrite
    \/ ManualCommit
    \/ ManualReturn
    \/ LogoutBegin
    \/ LogoutDelete
    \/ LogoutCommit
    \/ LogoutFinally

SpecAccount == InitAccount /\ [][NextAccount]_vars

\* a bulk refresh started beside a live store, config file and log directory
\* that hold tokens of their own
VS == Str("SSSSSSSSSSSSSSSSSSSSS")
LiveStores == {{}, LoggedIn(VS)}
LiveRaws ==
    {Mapping(<<<<K_Email, Str("a@x.io")>>, <<K_Access, VA>>, <<K_Refresh, VB>>>>),
     Mapping(<<<<K_Email, Str("a@x.io")>>, <<K_Access, EmptyStr>>, <<K_Refresh, VB>>>>),
     Mapping(<<<<K_Email, Str("a@x.io")>>>>)}
LiveFiles == {RecordFile(Account(Str("Pro"), Str("2024-05-01T10:00:00.123456"), r)) :
                 r \in LiveRaws}
LiveFileLists == UNION {[1..n -> LiveFiles] : n \in 1..MaxFiles}

InitRefreshLive ==
    /\ store \in LiveStores
    /\ dbExists = (store # {})
    /\ StoreIdle
    /\ cfg \in AccountCfgs
    /\ logs = [state |-> "ok",
               files |-> <<[name |-> "000003.log", readable |-> TRUE,
                            text |-> "k\"token\":\"LLL\"z"]>>]
    /\ lpc = "idle"
    /\ token = None
    /\ cands = NoCands
    /\ files \in LiveFileLists
    /\ RefreshIdle
    /\ AppIdle

SpecRefreshLive == InitRefreshLive /\ [][NextRefresh]_vars

\* -- the bulk refresh beside the delete handler ----------------------------
\* directories of well-formed records, no two with the same email and saved_date
RaceFiles ==
    {RecordFile(AccountOf(Str("a@x.io"), Str("2024-04-30T09:00:00.250000"))),
     RecordFile(AccountOf(Str("a@x.io"), Str("2024-04-30T09:00:01"))),
     RecordFile(AccountOf(Str("b@x.io"), Str("2024-04-30T09:00:00.250000")))}

RaceLists ==
    UNION {{s \in [1..n -> RaceFiles] : \A i, j \in 1..n : i # j => s[i] # s[j]}
              : n \in 1..MaxFiles}

RaceProfiles ==
    {ProfileNone, Profile(Str("free_trial"), Str("active"), Days(5), NoSubscription)}

InitRace ==
    /\ dbExists = FALSE
    /\ store = {}
    /\ StoreIdle
    /\ LocatorIdle
    /\ files \in RaceLists
    /\ RefreshIdle
    /\ names = [i \in 1..Len(files) |-> OldName(i)]
    /\ saved_accounts = <<>>
    /\ accounts_tree = <<>>
    /\ clock = 0
    /\ msg = Msg("starting", None, None)
    /\ save_job = NoJob
    /\ CurrentIdle
    /\ FormatIdle
    /\ UiIdle

NextRace ==
    \/ LoadAtStartup
    \/ \E index \in 1..MaxFiles, confirmed \in BOOLEAN, listed \in BOOLEAN,
          stuck \in 0..MaxFiles :
          DeleteSelected(index, confirmed, listed, stuck)
    \/ RefreshStart
    \/ RefreshRecordRead
    \/ \E subscription_info \in RaceProfiles, wf \in WriteFaults,
          pos \in 1..(MaxFiles + 1) :
          RefreshRecordWrite(subscription_info, wf, pos)
    \/ RefreshReturn
    \/ CheckRefreshSavedFuture

SpecRace == InitRace /\ [][NextRace]_vars

\* -- the current account, its refresh, the writers of the store and save ---
IdentityResponses ==
    {Response("ok", Profile(Str("pro"), Str("active"), NoDays, NoSubscription)),
     Response("ok", Profile(None, Str("active"), NoDays, NoSubscription))}

InitIdentity ==
    /\ dbExists = TRUE
    /\ store = {<<K_Email, Str("a@x.io")>>, <<K_Access, VA>>}
    /\ StoreIdle
    /\ cfg = [state |-> "missing", doc |-> <<>>]
    /\ logs = [state |-> "missing", files |-> <<>>]
    /\ lpc = "idle"
    /\ token = None
    /\ cands = NoCands
    /\ files = <<>>
    /\ RefreshIdle
    /\ AppIdle

NextIdentity ==
    \/ RefreshClick
    \/ RefreshRead
    \/ LocateStorage
    \/ LocateSqlite
    \/ LocateSession
    \/ \E response \in IdentityResponses : RefreshCall(response)
    \/ RefreshCollect
    \/ ManualApply("b@x.io", "AAAAAAAAAAAAAAAAAAAAA\n", "BBBBBBBBBBBBBBBBBBBBB\n", "Auth_0")
    \/ ManualWrite
    \/ ManualCommit
    \/ ManualReturn
    \/ LogoutBegin
    \/ LogoutDelete
    \/ LogoutCommit
    \/ LogoutFinally
    \/ SaveClick
    \/ SaveWorker(1, "none")
    \/ SaveCollect

SpecIdentity == InitIdentity /\ [][NextIdentity]_vars

\* -- the session-log strategy on logs that hold invalid bytes --------------
SessionLogFiles ==
    { [name |-> "000003.log", readable |-> TRUE,  text |-> "k\"token\":\"LLL\"z"],
      [name |-> "000004.log", readable |-> TRUE,  text |-> "\"token\":\"\" none"],
      [name |-> "000005.log", readable |-> FALSE, text |-> "\"token\":\"MMM\""],
      [name |-> "000007.log", readable |-> TRUE,  text |-> "\"tok^en\":\"SSS\""],
      [name |-> "000008.log", readable |-> TRUE,  text |-> "\"token\":\"T^T\""],
      [name |-> "000009.log", readable |-> TRUE,  text |-> "^^ no entry"] }

SessionLogDirs ==
    [state : {"ok"}, files : UNION {[1..n -> SessionLogFiles] : n \in 0..MaxLogs}]

InitSession ==
    /\ dbExists \in BOOLEAN
    /\ store \in {{}, {<<K_Access, Str("bbbbbbbbbbbbbbbbbbbb")>>}}
    /\ (~dbExists => store = {})
    /\ StoreIdle
    /\ cfg = [state |-> "missing", doc |-> <<>>]
    /\ logs \in SessionLogDirs
    /\ lpc = "storage"
    /\ token = None
    /\ cands = NoCands
    /\ files = <<>>
    /\ RefreshIdle
    /\ AppIdle

SpecSession == InitSession /\ [][NextLocator]_vars

\* -- every operation beside a store, a config file, logs and a record -------
FrameRaws == {Mapping(<<<<K_Email, Str("a@x.io")>>, <<K_Access, VA>>>>)}
FrameResponses ==
    {Response("ok", Profile(Str("pro"), Str("active"), NoDays, NoSubscription))}

\* the window of a logged-in user whose store holds an empty access token,
\* with a token in storage.json, one in a session log and one saved record
InitFrame ==
    /\ dbExists = TRUE
    /\ store = {<<K_Email, Str("a@x.io")>>, <<K_Access, EmptyStr>>, <<K_Member, Str("pro")>>}
    /\ StoreIdle
    /\ cfg = [state |-> "ok", doc |-> <<<<K_Access, Str("CCCCCCCCCCCCCCCCCCCCC")>>>>]
    /\ logs = [state |-> "ok",
               files |-> <<[name |-> "000003.log", readable |-> TRUE,
                            text |-> "k\"token\":\"LLL\"z"]>>]
    /\ lpc = "idle"
    /\ token = None
    /\ cands = NoCands
    /\ files = <<RecordFile(Account(Str("Pro"), Str("2024-05-01T10:00:00.123456"),
                     Mapping(<<<<K_Email, Str("a@x.io")>>, <<K_Access, VA>>,
                               <<K_Refresh, VB>>>>)))>>
    /\ RefreshIdle
    /\ names = [i \in 1..Len(files) |-> OldName(i)]
    /\ saved_accounts = <<>>
    /\ accounts_tree = <<>>
    /\ clock = 0
    /\ msg = Msg("starting", None, None)
    /\ save_job = NoJob
    /\ view = ViewOf("a@x.io")
    /\ current_account_data = <<<<K_Email, Str("a@x.io")>>, <<K_Member, Str("pro")>>>>
    /\ cur = NoRefresh
    /\ FormatIdle
    /\ UiIdle

\* the operations are started one at a time here: the interactive thread is
\* between handlers and no future is pending
Quiet ==
    /\ pc = "idle"
    /\ cur.state = "idle"
    /\ save_job.state = "idle"
    /\ rpc \in {"idle", "collected"}

\* and of save, bulk refresh, delete and export only the first after the
\* list was loaded is run; refresh, restore, manual input and logout follow
\* one another without limit
FirstOnRecords == Quiet /\ msg.text = "none"

NextFrame ==
    \/ Quiet /\ RefreshClick
    \/ RefreshRead
    \/ LocateStorage
    \/ LocateSqlite
    \/ LocateSession
    \/ \E response \in FrameResponses : RefreshCall(response)
    \/ RefreshCollect
    \/ Quiet /\ \E raw \in FrameRaws : RestoreBegin(raw)
    \/ RestoreWrite
    \/ RestoreCommit
    \/ RestoreFinally
    \/ Quiet /\ ManualApply("a@x.io", "AAAAAAAAAAAAAAAAAAAAA\n", "BBBBBBBBBBBBBBBBBBBBB\n", "Auth_0")
    \/ ManualWrite
    \/ ManualCommit
    \/ ManualReturn
    \/ Quiet /\ LogoutBegin
    \/ LogoutDelete
    \/ LogoutCommit
    \/ LogoutFinally
    \/ Quiet /\ LoadAtStartup
    \/ FirstOnRecords /\ SaveClick
    \/ SaveWorker(1, "none")
    \/ SaveCollect
    \/ FirstOnRecords /\ RefreshStart
    \/ RefreshRecordRead
    \/ \E subscription_info \in RaceProfiles : RefreshRecordWrite(subscription_info, "none", 1)
    \/ RefreshReturn
    \/ CheckRefreshSavedFuture
    \/ FirstOnRecords /\ \E confirmed \in BOOLEAN : DeleteSelected(1, confirmed, TRUE, 0)
    \/ FirstOnRecords /\ \E filename \in ExportTargets, wf \in WriteFaults :
                            ExportAccountData(filename, wf)

SpecFrame == InitFrame /\ [][NextFrame]_vars

----------------------------------------------------------------------------
(* Properties of the store's writers.                                      *)

ItemKeys == {items[i][1] : i \in 1..Len(items)}
ItemRows == {items[i] : i \in 1..Len(items)}

\* the committed rows are the rows before the handler with every pair of
\* items written: each pair is a row, no other row has one of their keys, and
\* the rows under the other keys are those of before
AllWritten ==
    /\ ItemRows \subseteq store
    /\ \A r \in store : r[1] \in ItemKeys => r \in ItemRows
    /\ {r \in store : r[1] \notin ItemKeys} = {r \in pre : r[1] \notin ItemKeys}

\* C1: restore_selected_account applies the record's raw_data as one
\* transaction: while the loop runs and after any failed step (SELECT,
\* INSERT, UPDATE, COMMIT, an unbindable value, raw_data without items) the
\* committed rows are those of before the call; after a success every pair is
\* committed; no state has only some of the pairs committed.
RestoreIsAtomic ==
    op = "restore" =>
        /\ pc = "restore" => store = pre
        /\ (pc = "restore_msg" /\ outcome = "error") => store = pre
        /\ (pc = "restore_msg" /\ outcome = "success") => AllWritten
        /\ pc \in {"restore", "restore_msg"} => (store = pre \/ AllWritten)

\* a restore that failed at its second pair after its first pair changed the
\* rows of the transaction
RestoreFailedAtSecondPair ==
    /\ op = "restore"
    /\ pc = "restore_msg"
    /\ outcome = "error"
    /\ idx = 2
    /\ Len(items) = 2
    /\ Bindable(items[1][2])
    /\ items[1] \notin pre

\* C2: apply_manual_input and restore_selected_account write with the same
\* transactional semantics: both end with the same committed rows (those of
\* before on a failure, every pair written on a success), a failed write is
\* rolled back before the error is reported, and no transaction or connection
\* stays open once the handler is over.
WritersShareUpsertSemantics ==
    /\ (pc \in {"restore_msg", "manual_msg"} /\ outcome = "error") =>
            (~conn.txn /\ store = pre)
    /\ (pc \in {"restore_msg", "manual_msg"} /\ outcome = "success") =>
            (~conn.txn /\ AllWritten)
    /\ pc = "idle" => (~conn.open /\ ~conn.txn)

RecognizedAuthKeys ==
    {"cursorAuth/cachedEmail", "cursorAuth/refreshToken", "cursorAuth/accessToken",
     "cursorAuth/cachedSignUpType", "cursorAuth/stripeMembershipType"}

\* C3: logout_current_account removes exactly the five recognized auth keys in
\* one transaction and leaves every other row as it was, whether or not each
\* key was present; when a DELETE or the COMMIT fails no row is removed.
LogoutRemovesExactlyAuthKeys ==
    op = "logout" =>
        /\ pc = "logout" => store = pre
        /\ (pc = "logout_msg" /\ outcome = "error") => store = pre
        /\ (pc = "logout_msg" /\ outcome = "success") =>
                store = {r \in pre : r[1] \notin RecognizedAuthKeys}

\* a successful logout from a table holding some auth keys, lacking others,
\* and holding a foreign key
LogoutOfPartialAccount ==
    /\ op = "logout"
    /\ pc = "logout_msg"
    /\ outcome = "success"
    /\ \E r \in pre : r[1] \in RecognizedAuthKeys
    /\ \E k \in RecognizedAuthKeys : \A r \in pre : r[1] # k
    /\ \E r \in pre : r[1] \notin RecognizedAuthKeys

----------------------------------------------------------------------------
(* Properties of the token locator.                                        *)

\* C4: get_token_from_cursor_config tries storage.json, then ItemTable, then
\* the session logs, and returns the first non-empty value: a non-empty value
\* of storage.json is returned without the later sources being tried, whatever
\* they hold, and a session-log value is returned only after storage.json and
\* ItemTable both gave nothing.
LocatorPrecedence ==
    lpc = "done" =>
        /\ Truthy(cands.storage.val) =>
              /\ token = cands.storage.val
              /\ cands.sqlite.val = NotTried
              /\ cands.session.val = NotTried
        /\ (cfg.state = "ok" /\ \E i \in 1..Len(cfg.doc) :
                cfg.doc[i][1] = "cursorAuth/accessToken" /\ Truthy(cfg.doc[i][2])) =>
              \E i \in 1..Len(cfg.doc) :
                cfg.doc[i][1] = "cursorAuth/accessToken" /\ token = cfg.doc[i][2]
        /\ Truthy(cands.sqlite.val) =>
              /\ token = cands.sqlite.val
              /\ cands.session.val = NotTried
        /\ cands.session.val # NotTried =>
              /\ ~Truthy(cands.storage.val)
              /\ ~Truthy(cands.sqlite.val)
              /\ cands.sqlite.val # NotTried

\* the config token is returned although ItemTable holds another token and a
\* session log holds a third
ConfigTokenWinsOverOthers ==
    /\ lpc = "done"
    /\ Truthy(cands.storage.val)
    /\ token = cands.storage.val
    /\ dbExists
    /\ <<K_Access, VB>> \in store
    /\ logs.state = "ok"
    /\ Len(logs.files) > 0
    /\ LogPasses(logs.files[1])

\* C5: the locator never raises and a failing source does not end the search:
\* no strategy's failure reaches the caller, a source that is missing,
\* unreadable or unparseable is followed by the next source, whose token is
\* returned, and the result is empty only when all three sources were tried
\* and none gave a non-empty value.
LocatorDegrades ==
    lpc = "done" =>
        /\ ~cands.storage.raised /\ ~cands.sqlite.raised /\ ~cands.session.raised
        /\ cfg.state # "ok" => cands.sqlite.val # NotTried
        /\ (cfg.state # "ok" /\ Truthy(cands.sqlite.val)) => token = cands.sqlite.val
        /\ (~Truthy(cands.storage.val) /\ ~Truthy(cands.sqlite.val)) =>
              /\ cands.session.val # NotTried
              /\ token = GetTokenFromSession(logs).val
        /\ token = None =>
              /\ cands.storage.val # NotTried /\ ~Truthy(cands.storage.val)
              /\ cands.sqlite.val # NotTried /\ ~Truthy(cands.sqlite.val)
              /\ cands.session.val # NotTried /\ ~Truthy(cands.session.val)

\* storage.json is unreadable, the query on ItemTable fails although a token
\* row exists, a log cannot be read, and the token of a later log is returned
LaterLogTokenAfterFailures ==
    /\ lpc = "done"
    /\ cfg.state = "unreadable"
    /\ dbExists
    /\ TokenLikeRows(store) # {}
    /\ cands.sqlite.val = None
    /\ logs.state = "ok"
    /\ Len(logs.files) = 2
    /\ ~logs.files[1].readable
    /\ token = Str("LLL")

----------------------------------------------------------------------------
(* Properties of the bulk refresh.                                         *)

\* a file that holds a record of the documented schema
WellFormed(f) ==
    /\ f.kind = "rec"
    /\ IsStr(f.data.saved_date)
    /\ f.data.raw_data.mapping

\* the raw credential set holds no non-empty access or refresh token
NoToken(raw) ==
    \A k \in 1..Len(raw.items) :
        raw.items[k][1] \in {K_Access, K_Refresh} =>
            ~(IsStr(raw.items[k][2]) /\ raw.items[k][2].s # "")

\* the worker's lists exist: it is in its loop or has returned them
ListsLive == rpc = "loop" \/ result = "report"

FailedSet == {failed_accounts[k] : k \in 1..Len(failed_accounts)}

\* the result entry at position j (from 1) came from file i, carries membership m,
\* is flagged failed and is listed in the failed set
FlaggedAs(i, j, m) ==
    /\ rowFile[j] = i
    /\ updated_tree_data[j].membership = Str(m)
    /\ updated_tree_data[j].failed
    /\ (j - 1) \in FailedSet
    /\ refreshed_accounts[j].data.membership = Str(m)

\* C6: a record with neither a non-empty access token nor a non-empty refresh
\* token is never presented to the remote service; handling it does not end
\* the batch, and its entry carries "No Token Found", is flagged failed and
\* is listed in the failed set.
NoTokenRecordsAreFlagged ==
    \A i \in 1..Len(hist) :
        (files0[i].kind = "rec" /\ files0[i].data.raw_data.mapping
            /\ NoToken(files0[i].data.raw_data)) =>
            /\ ~hist[i].called
            /\ WellFormed(files0[i]) =>
                  /\ Len(hist) = i => (result # E_Refreshing /\ ri = i + 1)
                  /\ ListsLive =>
                        \E j \in 1..Len(updated_tree_data) : FlaggedAs(i, j, M_NoToken)

\* a report in which a record with empty tokens was flagged and another was called for
NoTokenRecordInReport ==
    /\ result = "report"
    /\ \E i \in 1..Len(hist) :
          /\ WellFormed(files0[i])
          /\ RawGet(files0[i].data.raw_data, K_Access) = EmptyStr
          /\ NoToken(files0[i].data.raw_data)
          /\ \E j \in 1..Len(updated_tree_data) : FlaggedAs(i, j, M_NoToken)
    /\ \E k \in 1..Len(hist) : hist[k].called

\* C7: a record with a token whose remote call returns nothing gets
\* "API Error - Auth Failed", is flagged failed and listed in the failed set,
\* is not among the processed ones, and the worker goes on to the next record.
ApiFailureIsFlagged ==
    \A i \in 1..Len(hist) :
        (WellFormed(files0[i]) /\ hist[i].called /\ hist[i].resp = ProfileNone) =>
            /\ Len(hist) = i => (result # E_Refreshing /\ ri = i + 1)
            /\ ListsLive =>
                  /\ \E j \in 1..Len(updated_tree_data) : FlaggedAs(i, j, M_ApiError)
                  /\ \A j \in 1..Len(updated_tree_data) :
                        rowFile[j] = i => updated_tree_data[j].failed
                  /\ processed = Cardinality({j \in 1..Len(updated_tree_data) :
                                                 ~updated_tree_data[j].failed})

\* a report where the first record's call failed and the second was processed
ApiFailureThenProcessed ==
    /\ result = "report"
    /\ Len(hist) = 2
    /\ hist[1].called /\ hist[1].resp = ProfileNone
    /\ FlaggedAs(1, 1, M_ApiError)
    /\ hist[2].called /\ hist[2].resp # ProfileNone
    /\ processed = 1

\* C8: in a report over N >= 1 files, total = N; the failed list is strictly
\* increasing and holds exactly the positions (from 0) of the entries flagged
\* failed; processed is the number of entries not flagged; processed plus the
\* length of the failed list is the number of entries, at most total.
ReportCountsAgree ==
    result = "report" =>
        /\ total = Len(files0)
        /\ total >= 1
        /\ \A k \in 1..(Len(failed_accounts) - 1) :
              failed_accounts[k] < failed_accounts[k + 1]
        /\ FailedSet = {j - 1 : j \in {n \in 1..Len(updated_tree_data) :
                                          updated_tree_data[n].failed}}
        /\ processed = Cardinality({j \in 1..Len(updated_tree_data) :
                                       ~updated_tree_data[j].failed})
        /\ processed + Len(failed_accounts) = Len(updated_tree_data)
        /\ Len(refreshed_accounts) = Len(updated_tree_data)
        /\ Len(updated_tree_data) <= total

\* a report with one processed entry followed by one failed entry
ReportWithSecondEntryFailed ==
    /\ result = "report"
    /\ total = 2
    /\ processed = 1
    /\ failed_accounts = <<1>>

\* C9: a record whose remote call returned a response, and whose file could be
\* written, has its file rewritten with membership = format_subscription_type
\* of the response and the trial fields of that response, and its entry is
\* not flagged failed.
AnsweredRecordsAreRewritten ==
    \A i \in 1..Len(hist) :
        (WellFormed(files0[i]) /\ hist[i].called /\ hist[i].resp # ProfileNone
            /\ hist[i].write \notin {"open", "dump"}
            /\ ~format_subscription_type(hist[i].resp).raised) =>
            /\ files[i].kind = "rec"
            /\ files[i].data.membership = Str(format_subscription_type(hist[i].resp).val)
            /\ files[i].data.trial_status = Str(TrialFields(hist[i].resp).trial_status)
            /\ files[i].data.pro_trial_remaining
                  = Str(TrialFields(hist[i].resp).pro_trial_remaining)
            /\ ListsLive =>
                  \E j \in 1..Len(updated_tree_data) :
                      rowFile[j] = i /\ ~updated_tree_data[j].failed

\* C10: once the loop has been entered, the worker ends with a report, having
\* been through every file, whatever exception a record raised.
RecordExceptionNeverHaltsBatch ==
    (rpc = "done" /\ total >= 1) =>
        /\ result = "report"
        /\ Len(hist) = total

\* the tokens the live store, the config file and the log directory hold
LiveTokens ==
    {r[2] : r \in {x \in store : x[1] \in {K_Access, K_Refresh}}}
      \cup {cfg.doc[i][2] : i \in 1..Len(cfg.doc)}
      \cup {ReSearchToken(Decode(logs.files[i].text)) : i \in 1..Len(logs.files)}

\* C20: the token a bulk refresh presents for a record is the access token of
\* the record's own raw_data, or its refresh token when the access token is
\* absent or empty, whatever tokens the live store, the config file and the
\* session logs hold; without either the remote endpoint is not called.
BulkTokenIsTheRecordsOwn ==
    \A i \in 1..Len(hist) :
        (files0[i].kind = "rec" /\ files0[i].data.raw_data.mapping) =>
            LET raw == files0[i].data.raw_data
                own_access == RawGet(raw, K_Access)
                own_refresh == RawGet(raw, K_Refresh)
            IN  /\ hist[i].token = IF Truthy(own_access) THEN own_access ELSE own_refresh
                /\ hist[i].called <=> Truthy(hist[i].token)
                /\ hist[i].called => hist[i].token \notin LiveTokens

TokenlessRecordBesideLiveTokens ==
    /\ rpc = "done"
    /\ Len(hist) = 2
    /\ store = LoggedIn(VS)
    /\ cfg.state = "ok"
    /\ RawGet(files0[1].data.raw_data, K_Access) = EmptyStr
    /\ hist[1].called /\ hist[1].token = VB
    /\ RawGet(files0[2].data.raw_data, K_Refresh) = None
    /\ ~hist[2].called

----------------------------------------------------------------------------
(* Properties of the record directory.                                     *)

\* the files holding a record with exactly this email and saved_date
FilesOf(e, d) ==
    {i \in 1..Len(files) :
        files[i].kind = "rec" /\ files[i].data.email = e /\ files[i].data.saved_date = d}

\* C11: a delete that reports success has removed exactly one file, one whose
\* email and saved_date are those of the selected record, and left every
\* other file and name as it was; any other outcome leaves all files as they
\* were, and when no file matches the outcome is "Not Found".
DeleteRemovesExactlyTheMatch ==
    [][\A index \in 1..MaxFiles, confirmed \in BOOLEAN, listed \in BOOLEAN,
          stuck \in 0..MaxFiles :
          DeleteSelected(index, confirmed, listed, stuck) =>
              LET matching == FilesOf(msg'.email, msg'.saved_date)
              IN  /\ msg'.text = "Success" =>
                        \E k \in matching :
                            files' = Remove(files, k) /\ names' = Remove(names, k)
                  /\ msg'.text # "Success" => (files' = files /\ names' = names)
                  /\ (confirmed /\ listed /\ saved_accounts[index].kind = "rec"
                        /\ matching = {}) => msg'.text = "Not Found"
                  /\ (msg'.text = "Not Found" /\ stuck = 0) => matching = {}]_vars

\* a record was deleted and the other record of the same email is still there
DeletedOneOfTwoWithSameEmail ==
    /\ msg.text = "Success"
    /\ Len(files) = 1
    /\ files[1].kind = "rec"
    /\ files[1].data.email = msg.email
    /\ files[1].data.saved_date # msg.saved_date

\* the files that parse
Parsed == {i \in 1..Len(files) : files[i].kind # "corrupt"}

\* C12: once the directory has been listed, saved_accounts holds every file
\* that parses, in listing order, and nothing else; a file that does not
\* parse is left out without ending the enumeration.
ListReturnsEveryParsedRecord ==
    msg.text \notin {"starting", "Error loading saved accounts"} =>
        /\ Len(saved_accounts) = Cardinality(Parsed)
        /\ \A i \in Parsed :
              saved_accounts[Cardinality({j \in Parsed : j <= i})] = files[i]

\* a listing that left out a first file that does not parse and kept the second
ListedPastMalformedFile ==
    /\ msg.text = "none"
    /\ Len(files) = 2
    /\ files[1] = CorruptFile
    /\ files[2].kind = "rec"
    /\ saved_accounts = <<files[2]>>

\* C13: a successful save writes a file under a name no file had, so the
\* directory gains one file.
SaveNeverOverwrites ==
    [][\A pos \in 1..(MaxFiles + MaxClock) :
          SaveWorker(pos, "none") =>
              /\ \A i \in 1..Len(names) : names[i] # save_job'.filename
              /\ Len(files') = Len(files) + 1]_vars

\* row i of the list presents record i of saved_accounts
Presents(i) ==
    /\ saved_accounts[i].kind = "rec"
    /\ accounts_tree[i].email = Get(saved_accounts[i].data.email, Str("Unknown"))
    /\ accounts_tree[i].account_type
          = Get(saved_accounts[i].data.account_type, Str("Unknown"))
    /\ IsStr(saved_accounts[i].data.saved_date)
    /\ accounts_tree[i].saved_date = Str(Slice19(saved_accounts[i].data.saved_date.s))

\* C26: whatever the directory holds, after every load_saved_accounts the
\* record sequence and the row sequence have the same length and row i
\* presents record i, so the record a handler takes at the index of the
\* selected row is the record that row shows.
RowsAlignWithRecords ==
    /\ Len(saved_accounts) = Len(accounts_tree)
    /\ \A i \in 1..Len(accounts_tree) : i <= Len(saved_accounts) /\ Presents(i)

----------------------------------------------------------------------------
(* Properties of the controls.                                             *)

Running(kinds) == {j \in 1..Len(jobs) : jobs[j].kind \in kinds /\ ~jobs[j].done}

\* the controls whose handler starts a refresh of the current account or of
\* the saved accounts
StartsRefresh ==
    {"Refresh", "Refresh Saved Accounts", "Restore Selected", "Manual Input"}

\* C14: at most one refresh (of the current account or of the saved
\* accounts) runs at a time, every control that can start another one is
\* disabled while one runs, and no two bulk refreshes are at the same record
\* file at the same time.
RefreshesAreExclusive ==
    /\ Cardinality(Running({"refresh", "refresh_saved"})) <= 1
    /\ Running({"refresh", "refresh_saved"}) # {}
          => \A b \in StartsRefresh : ~buttons[b]
    /\ \A i \in Running({"refresh_saved"}), j \in Running({"refresh_saved"}) :
          i # j => ~(jobs[i].at = jobs[j].at /\ jobs[i].at >= 1)

----------------------------------------------------------------------------
(* Properties of the interpretation of a remote response.                  *)

PaidTiers == {"Pro", "Free Trial", "Pro Trial", "Team", "Enterprise"}

\* the mapping of the direct branch as the specification gives it; the
\* type and the status are compared and printed in lower case
DirectLabel(mt, st) ==
    LET type == Lower(mt)
        status == Lower(st)
    IN  IF status = "active"
        THEN CASE type = "pro" -> "Pro"
               [] type = "free_trial" -> "Free Trial"
               [] type = "pro_trial" -> "Pro Trial"
               [] type = "team" -> "Team"
               [] type = "enterprise" -> "Enterprise"
               [] type = "" -> "Active Subscription"
               [] OTHER -> Capitalize(type)
        ELSE Capitalize(type) \o " (" \o status \o ")"

\* C15: for a response with a direct membershipType, format_subscription_type
\* gives the label of the mapping for every type and every non-empty status,
\* gives "Free" for an empty or absent response, and never gives a paid tier
\* label when the status is not active.
DirectBranchFollowsTheMapping ==
    shown.by = "format" =>
        LET d == subscription_data
        IN  /\ d \in {ProfileNone, ProfileEmpty}
                  => ~shown.raised /\ shown.membership = "Free"
            /\ (d.kind = "dict" /\ IsStr(d.membershipType)
                  /\ IsStr(Get(d.subscriptionStatus, EmptyStr)))
                  => LET mt == d.membershipType.s
                         st == Get(d.subscriptionStatus, EmptyStr).s
                     IN  /\ ~shown.raised
                         /\ st # "" => shown.membership = DirectLabel(mt, st)
                         /\ Lower(st) # "active" => shown.membership \notin PaidTiers

\* C16: whatever get_stripe_profile returns, neither the refresh of the
\* current account nor the bulk refresh raises while interpreting it.
NoBodyMakesAFlowRaise ==
    shown.by \in {"current", "bulk"} => ~shown.raised

\* C17: on both paths a membership type containing "trial" with a positive
\* days-remaining field reports "Active - N days remaining"; with the field
\* absent, null or not positive the refresh of the current account reports
\* "Trial (checking...)" and the bulk refresh "Trial expired"; a type without
\* "trial" reports "Not on trial" on both.
TrialStatusByPath ==
    (shown.by \in {"current", "bulk"} /\ ~shown.raised
        /\ TruthyProfile(subscription_data))
    => LET d == subscription_data
           mt == Lower(Get(d.membershipType, EmptyStr).s)
           n == d.daysRemainingOnTrial
           positive == n.st = "num" /\ n.n > 0
       IN  /\ (Contains(mt, "trial") /\ positive)
                 => shown.trial_status = "Active - " \o ToString(n.n) \o " days remaining"
           /\ (Contains(mt, "trial") /\ ~positive)
                 => shown.trial_status =
                        IF shown.by = "current" THEN "Trial (checking...)"
                        ELSE "Trial expired"
           /\ ~Contains(mt, "trial") => shown.trial_status = "Not on trial"

TrialIndeterminateOnFirstFetch ==
    /\ shown.by = "current"
    /\ ~shown.raised
    /\ subscription_data.membershipType = Str("Pro_Trial")
    /\ subscription_data.daysRemainingOnTrial = NullDays
    /\ shown.trial_status = "Trial (checking...)"

----------------------------------------------------------------------------
(* Properties of the refresh of the current account.                       *)

\* what an operation that could not connect leaves as it was: the file and
\* its rows, the in-memory credential set and the frame, the saved records
Untouched ==
    UNCHANGED <<dbExists, store, current_account_data, view, files, names,
                saved_accounts, accounts_tree>>

\* a writer's handler has ended with "Cannot connect to Cursor database."
EndsNotConnected ==
    /\ ~dbExists => outcome' = "notconnected"
    /\ outcome' = "notconnected"
          => pc' = "idle" /\ conn' = NoConn /\ Untouched

\* C18: when the file of the store is missing or cannot be opened, restore,
\* manual input (with its three fields filled in), logout and the refresh of
\* the current account end with the "Cannot connect" error, begin no
\* transaction, do not create the file, and leave the rows, the in-memory
\* credential set and the saved records as they were.
NotConnectedChangesNothing ==
    [][/\ \A raw \in AccountRaws : RestoreBegin(raw) => EndsNotConnected
       /\ ManualApply("a@x.io", "AAAAAAAAAAAAAAAAAAAAA\n", "BBBBBBBBBBBBBBBBBBBBB\n",
                      "Auth_0") => EndsNotConnected
       /\ LogoutBegin => EndsNotConnected
       /\ RefreshRead
            => /\ ~dbExists => cur'.kind = "error" /\ cur'.error = E_CannotConnect
               /\ cur'.error = E_CannotConnect
                     => /\ cur'.state = "done" /\ ~cur'.read /\ ~cur'.called
                        /\ conn' = conn /\ lpc' = lpc
                        /\ Untouched
       /\ (RefreshCollect /\ cur.error = E_CannotConnect)
            => cur'.shown = "error" /\ Untouched]_vars

RefreshAndLogoutNotConnected ==
    /\ cur.shown = "error"
    /\ cur.error = E_CannotConnect
    /\ op = "logout"
    /\ outcome = "notconnected"
    /\ current_account_data # <<>>

\* C19: the worker returns "No access token found" exactly when the locator
\* gave nothing and the credential set read from the store has neither a
\* non-empty access token nor a non-empty refresh token, and then it has not
\* called the remote endpoint; with a token it calls, and returns success
\* with the credential set even when the call failed, which the frame then
\* shows as "Unable to fetch live data" and not as an error.
RefreshClassifiesItsOutcome ==
    [][/\ RefreshRead => cur'.error # E_NoAccessToken
       /\ \A response \in AccountResponses :
             RefreshCall(response)
               => LET held == \/ Truthy(RawGet(Mapping(cur.data), K_Access))
                              \/ Truthy(RawGet(Mapping(cur.data), K_Refresh))
                      nothing == ~Truthy(token) /\ ~held
                  IN  /\ (cur'.kind = "error" /\ cur'.error = E_NoAccessToken) <=> nothing
                      /\ nothing => ~cur'.called
                      /\ ~nothing
                           => /\ cur'.kind = "success" /\ cur'.called
                              /\ cur'.data = cur.data
                              /\ response.answer # "ok"
                                    => cur'.subscription_info = ProfileNone
       /\ (RefreshCollect /\ cur.kind = "success" /\ cur.subscription_info = ProfileNone)
            => /\ cur'.shown = "success"
               /\ view'.trial_status_var = "Unable to fetch live data"
               /\ current_account_data' = cur.data]_vars

RemoteFailureShownAsNoLiveData ==
    /\ cur.shown = "success"
    /\ cur.called
    /\ cur.subscription_info = ProfileNone
    /\ ~Truthy(token)
    /\ view.trial_status_var = "Unable to fetch live data"
    /\ current_account_data = cur.data

----------------------------------------------------------------------------
(* Properties of the bulk refresh: what it leaves alone.                   *)

\* file i has an entry in the result that is flagged failed
FlaggedFailed(i) ==
    \E j \in 1..Len(updated_tree_data) : rowFile[j] = i /\ updated_tree_data[j].failed

\* everything of a record but its membership and trial fields
Identity(f) ==
    [email |-> f.data.email, account_type |-> f.data.account_type,
     saved_date |-> f.data.saved_date, raw_data |-> f.data.raw_data]

\* C21: a bulk refresh changes only the membership and trial fields of
\* records: the directory keeps its files, every record keeps its email,
\* account_type, saved_date and raw_data, and the file of every record
\* flagged failed is what it was before the refresh.
BulkRefreshChangesOnlyLabels ==
    rpc # "idle" =>
        /\ Len(files) = Len(files0)
        /\ \A i \in 1..Len(files0) :
              /\ files0[i].kind = "rec" =>
                    files[i].kind = "rec" /\ Identity(files[i]) = Identity(files0[i])
              /\ (ListsLive /\ FlaggedFailed(i)) => files[i] = files0[i]

\* the entries of the result that the iteration over file i appended
EntriesOf(i) == {j \in 1..Len(updated_tree_data) : rowFile[j] = i}

\* C25: in the report of a bulk refresh, a file that failed to parse has no
\* entry and every other file has exactly one, which presents that file's
\* record and is flagged failed or not by that record's own outcome; so no
\* record is entered twice or flagged for the corruption of another file.
CorruptFilesContributeNothing ==
    result = "report" =>
        \A i \in 1..Len(files0) :
            IF files0[i].kind = "corrupt"
            THEN EntriesOf(i) = {}
            ELSE /\ Cardinality(EntriesOf(i)) = 1
                 /\ \A j \in EntriesOf(i) :
                       /\ refreshed_accounts[j].kind = "rec"
                       /\ Identity(refreshed_accounts[j]) = Identity(files0[i])
                       /\ updated_tree_data[j].failed
                             <=> ~(hist[i].called /\ hist[i].resp # ProfileNone
                                     /\ hist[i].write = "none")

----------------------------------------------------------------------------
(* Properties of the store's writers: what a read finds afterwards.        *)

\* a writer has reported success and has not returned yet
WriteSucceeded == pc \in {"restore_msg", "manual_msg"} /\ outcome = "success"

\* C22: after a successful write of a credential set (restore or manual
\* input) on any store, the SELECT of each key of the set finds one row, and
\* it holds the value written for that key.
WriteThenReadRoundTrip ==
    WriteSucceeded =>
        \A i \in 1..Len(items) :
            /\ ReadKeys(store, <<items[i][1]>>) = <<items[i]>>
            /\ {r \in store : r[1] = items[i][1]} = {<<items[i][1], items[i][2]>>}

\* a restore of two pairs, one over a row holding another value and one new
RestoredOverAnotherValue ==
    /\ WriteSucceeded
    /\ op = "restore"
    /\ Len(items) = 2
    /\ \E r \in pre : r[1] = items[1][1] /\ r[2] # items[1][2]
    /\ \A r \in pre : r[1] # items[2][1]
    /\ ReadKeys(store, <<items[1][1], items[2][1]>>) = items

\* the keys of a set of rows
KeysOf(rows) == {r[1] : r \in rows}

\* C23: from a store with unique keys, after any sequence of restore, manual
\* input and logout, successful or failed, each key occurs at most once, in
\* the committed rows and in the rows of an open transaction; a successful
\* write leaves exactly the keys there were and the keys written, so a set
\* whose keys were all present adds no row.
KeysStayUnique ==
    /\ UniqueKeys(store)
    /\ UniqueKeys(conn.work)
    /\ WriteSucceeded =>
          LET written == {items[i][1] : i \in 1..Len(items)}
          IN  /\ KeysOf(store) = KeysOf(pre) \cup written
              /\ written \subseteq KeysOf(pre) => Cardinality(store) = Cardinality(pre)

\* a manual input over a logged-in store: four rows updated in place
ManualInputOverLoggedIn ==
    /\ WriteSucceeded
    /\ op = "manual"
    /\ pre = LoggedIn(VA)
    /\ store # pre
    /\ Cardinality(store) = 5
    /\ \A i \in 1..Len(items) : <<items[i][1], items[i][2]>> \in store

\* the rows a logout leaves of the rows it found
LoggedOut(rows) == {r \in rows : \A i \in 1..Len(auth_keys) : r[1] # auth_keys[i]}

\* C28: a restore or logout that has reported an error has left the committed
\* rows as they were when it started; one that has reported success has
\* committed its whole mutation; and the committed rows change only in the
\* step that reports success, so no error is reported after the commit.
ErrorMeansRolledBack ==
    [][op' \in {"restore", "logout"} =>
          /\ outcome' \in {"error", "notconnected"} => store' = pre'
          /\ (outcome' = "success" /\ op' = "restore" /\ pc' = "restore_msg") =>
                /\ \A i \in 1..Len(items') : <<items'[i][1], items'[i][2]>> \in store'
                /\ {r \in store' : \A i \in 1..Len(items') : r[1] # items'[i][1]}
                      = {r \in pre' : \A i \in 1..Len(items') : r[1] # items'[i][1]}
          /\ (outcome' = "success" /\ op' = "logout") => store' = LoggedOut(pre')
          /\ store' # store => outcome' = "success"]_vars

\* a logout that failed at its third delete, on a store that held an account
LogoutFailedAfterTwoDeletes ==
    /\ op = "logout"
    /\ pc = "logout_msg"
    /\ outcome = "error"
    /\ idx = 3
    /\ pre = LoggedIn(VA) \cup {<<K_Other, VA>>}
    /\ store = pre

\* the pairs of a sequence of pairs
PairsOf(seq) == {<<seq[i][1], seq[i][2]>> : i \in 1..Len(seq)}

\* C30: after a successful restore of a saved record, on any prior store,
\* reading the five recognized keys returns the pairs of the record's
\* raw_data and nothing else: no recognized key keeps a value of the
\* identity that was logged in before.
RestoreLeavesNoLeftover ==
    (op = "restore" /\ pc = "restore_msg" /\ outcome = "success") =>
        PairsOf(ReadKeys(store, keys_to_get))
            = {p \in PairsOf(items) : \E i \in 1..Len(keys_to_get) : p[1] = keys_to_get[i]}

----------------------------------------------------------------------------
(* Properties of the storage.json strategy.                                *)

\* member i of the document has "token" in its name, in any case, and a
\* string of more than 20 characters as its value
TokenLike(i) ==
    /\ Contains(Lower(cfg.doc[i][1]), "token")
    /\ IsStr(cfg.doc[i][2])
    /\ Len(cfg.doc[i][2].s) > MinTokenLen

----------------------------------------------------------------------------
(* Properties of the bulk refresh beside the delete handler.               *)

\* C27: a record the user has deleted stays deleted: once the delete has
\* reported success and no bulk refresh is under way, no file holds a record
\* with the email and saved_date of the deleted one, however the delete was
\* interleaved with the worker.
DeletedStaysDeleted ==
    (msg.text = "Success" /\ rpc \notin {"loop", "fetching"}) =>
        FilesOf(msg.email, msg.saved_date) = {}

----------------------------------------------------------------------------
(* Properties of the identity a saved record carries.                      *)

\* account_data.get("cursorAuth/cachedEmail", "Not found") of a raw set
CachedEmailOf(raw) ==
    IF \E i \in 1..Len(raw.items) : raw.items[i][1] = K_Email
    THEN RawGet(raw, K_Email)
    ELSE Str("Not found")

\* C29: the email of every saved record is the cached email of the record's
\* own raw_data, or "Not found" when that has none; and the email the frame
\* shows is that of the credential set held in current_account_data, which
\* save_current_account snapshots together; across refreshes of the current
\* account, successful or failed, logout, manual input and save.
SavedIdentityIsItsRawIdentity ==
    /\ \A i \in 1..Len(files) :
          files[i].kind = "rec" =>
              files[i].data.email = CachedEmailOf(files[i].data.raw_data)
    /\ current_account_data # <<>> =>
          Str(view.email_var) = CachedEmailOf(Mapping(current_account_data))

----------------------------------------------------------------------------
(* Properties of the legacy branch of format_subscription_type.            *)

\* a body without membershipType whose "subscription" has a string nickname
\* and a string status: the legacy branch decides its label
Legacy(d) ==
    /\ d.kind = "dict"
    /\ d.membershipType = Absent
    /\ d.subscription.present
    /\ IsStr(d.subscription.nickname)
    /\ IsStr(d.subscription.status)

\* the tier a nickname names, the nickname itself when it names none
TierNamed(plan) ==
    IF Contains(Lower(plan), "pro_trial") THEN "Pro Trial"
    ELSE IF Contains(Lower(plan), "free_trial") THEN "Free Trial"
    ELSE IF Contains(Lower(plan), "team") THEN "Team"
    ELSE IF Contains(Lower(plan), "enterprise") THEN "Enterprise"
    ELSE IF Contains(Lower(plan), "pro") THEN "Pro"
    ELSE plan

\* C31: in the legacy branch with the status "active", the label is the tier
\* the plan nickname names: "Pro Trial" for a nickname containing
\* "pro_trial", "Free Trial" for "free_trial", "Team" for "team",
\* "Enterprise" for "enterprise", "Pro" for "pro", and the nickname itself
\* otherwise.
LegacyLabelIsTheTierNamed ==
    (shown.by = "format" /\ Legacy(subscription_data)
        /\ subscription_data.subscription.status = Str("active")) =>
        /\ ~shown.raised
        /\ shown.membership = TierNamed(subscription_data.subscription.nickname.s)

\* C32: the legacy branch tests the status as the direct branch does: a
\* status that is "active" in any letter case yields the label the status
\* "active" yields, and only another status yields "{plan} ({status})".
LegacyActiveInAnyCase ==
    (shown.by = "format" /\ Legacy(subscription_data)) =>
        LET plan == subscription_data.subscription.nickname.s
            status == subscription_data.subscription.status.s
            lowered == [subscription_data EXCEPT !.subscription.status = Str("active")]
        IN  /\ ~shown.raised
            /\ Lower(status) = "active" =>
                  shown.membership = format_subscription_type(lowered).val
            /\ Lower(status) # "active" =>
                  shown.membership = plan \o " (" \o status \o ")"

----------------------------------------------------------------------------
(* Properties of the ItemTable strategy.                                   *)

\* the value is a string of more than 20 characters
LongString(v) == IsStr(v) /\ Len(v.s) > MinTokenLen

\* the value is the text of a JSON object that has a "token" member
TokenObject(v) ==
    IsStr(v) /\ JsonLoads(v.s).ok /\ JsonLoads(v.s).dict /\ JsonLoads(v.s).hasToken

\* C33: when the query has run, the strategy's result is that of the first
\* row, in the order fetched, that is a string of more than 20 characters or
\* the text of a JSON object with a "token" member: the string itself, or
\* else the member's value; rows that are neither, valid JSON or not, are
\* passed over, and without such a row the strategy gives nothing.
SqliteScanTakesFirstPassingRow ==
    [][(lpc = "sqlite" /\ lpc' # "sqlite") =>
       \A q \in RowOrders(TokenLikeRows(store)) :
          cands'.sqlite = GetTokenFromSqlite(TRUE, TRUE, q) =>
              LET passing == {i \in 1..Len(q) : LongString(q[i][2]) \/ TokenObject(q[i][2])}
              IN  /\ ~cands'.sqlite.raised
                  /\ passing = {} => cands'.sqlite.val = None
                  /\ \A i \in passing :
                        (\A j \in passing : i <= j) =>
                            cands'.sqlite.val =
                                IF LongString(q[i][2]) THEN q[i][2]
                                ELSE JsonLoads(q[i][2].s).token]_vars

\* the member of a JSON object is returned from a table that also holds a
\* row that is JSON without being an object
TokenMemberBesideOtherJson ==
    /\ store = {<<K_Access, Str("{\"token\":\"JJJ\"}")>>, <<K_Refresh, Str("[]")>>}
    /\ cands.sqlite = Returned(Str("JJJ"))
    /\ token = Str("JJJ")

----------------------------------------------------------------------------
(* Properties of the session-log strategy.                                 *)

\* v is what a lenient decoder makes of the bytes w: the same characters,
\* with something in the place of each invalid byte sequence
Renders(w, v) ==
    /\ Len(w) = Len(v)
    /\ \A k \in 1..Len(w) : CharAt(w, k) # InvalidByte => CharAt(v, k) = CharAt(w, k)

\* the bytes of some readable log hold "token":"<w>" unbroken, and v renders w
InTheBytes(v) ==
    \E i \in 1..Len(logs.files) :
        /\ EndsWith(logs.files[i].name, ".log")
        /\ logs.files[i].readable
        /\ \E a \in 1..Len(logs.files[i].text), b \in 1..(Len(logs.files[i].text) - 1) :
              /\ a + Len(TokenPattern) <= b
              /\ SubSeq(logs.files[i].text, a, a + Len(TokenPattern) - 1) = TokenPattern
              /\ CharAt(logs.files[i].text, b + 1) = "\""
              /\ Renders(SubSeq(logs.files[i].text, a + Len(TokenPattern), b), v)

\* C34: the session-log strategy returns a value only for a "token":"<value>"
\* that stands unbroken in the bytes of a log: never a match or a value made
\* by joining the text on the two sides of an invalid byte sequence.
SessionValueIsContiguousInBytes ==
    (cands.session.val # NotTried /\ Truthy(cands.session.val)) =>
        /\ IsStr(cands.session.val)
        /\ InTheBytes(cands.session.val.s)

----------------------------------------------------------------------------
(* Properties of the worker pool and the polling callbacks.                *)

\* the future numbered i is submitted and not yet collected
FutureSubmitted(i) == \E j \in 1..Len(jobs) : jobs[j].id = i

\* the worker of the future numbered i has returned a result value
FutureCompleted(i) ==
    \E j \in 1..Len(jobs) :
        jobs[j].id = i /\ jobs[j].done /\ jobs[j].value \in Results

\* C35: under the scheduling of the executor and of the main loop, every
\* submitted refresh-current, save and bulk refresh job comes to be done
\* with a result value, success or error; every job that is done is
\* collected by its polling callback, and the step that collects it leaves
\* every button enabled; so no button stays disabled forever.
EverySubmittedJobCompletesAndEnables ==
    /\ \A i \in 1..MaxJobs : FutureSubmitted(i) ~> FutureCompleted(i)
    /\ \A i \in 1..MaxJobs : FutureCompleted(i) ~> ~FutureSubmitted(i)
    /\ [][Len(jobs') < Len(jobs) => \A n \in ButtonNames : buttons'[n]]_vars
    /\ (\E n \in ButtonNames : ~buttons[n]) ~> (\A n \in ButtonNames : buttons[n])

\* a worker has returned an error while another job is still running and
\* the buttons of button_frame are disabled
ErrorReturnedWhileDisabled ==
    \E j \in 1..Len(jobs), k \in 1..Len(jobs) :
        /\ jobs[j].done
        /\ jobs[j].value = "error"
        /\ ~jobs[k].done
        /\ ~buttons["Refresh"]

----------------------------------------------------------------------------
(* Properties of what each operation writes.                               *)

\* the step is one of restore_selected_account, apply_manual_input or
\* logout_current_account
WriterStep ==
    /\ op' \in {"restore", "manual", "logout"}
    /\ <<pc, idx>>' # <<pc, idx>>

====
